---------------------------- MODULE Spec2Model ----------------------------
(***************************************************************************)
(* Verification model of the economic scenario engine of financyou:        *)
(*   stochastic_models/calibration.py   EIOPACalibrator                    *)
(*   stochastic_models/hull_white.py    HullWhiteModel                     *)
(*   stochastic_models/correlation.py   CorrelatedRandomGenerator          *)
(*   modules/scenario_generator.py      ScenarioGenerator                  *)
(*                                                                         *)
(* Reals are fixed-point integers: a value v stands for v / FP, so rates   *)
(* are in basis points and a bond price of 1 is FP.  Divisions round the   *)
(* way \div does; exp, log and sqrt are computed by series on that scale.  *)
(* Optional values (None or x) are the sequences << >> and << x >>.        *)
(***************************************************************************)
EXTENDS Integers, Sequences, FiniteSets, TLC

VARIABLES
    cal,        \* the EIOPACalibrator object: its fields
    calOut,     \* outcome of the last call made on the calibrator
    calHist,    \* outcomes of the calibrate() calls made on it so far (a set)
    fpErr,      \* rounding error of one spline evaluation, in units of 1/FP
    hw,         \* the HullWhiteModel object: its constructor arguments
    hwOut,      \* outcome of the last generate_scenarios call
    rng,        \* numpy's process-wide random state: [seed, pos]
    gens,       \* the ScenarioGenerator objects: constructed, seed
    calls,      \* per generator: outcome of its generate call
    nCalls,     \* number of generation calls made so far
    crg,        \* the CorrelatedRandomGenerator object: its fields
    crgOut,     \* outcome of the last call made on it
    asset,      \* the BlackScholesEquity or RealEstateModel object
    assetOut    \* outcome of its last generate_returns call

vars ==
    <<cal, calOut, calHist, fpErr, hw, hwOut, rng, gens, calls, nCalls,
      crg, crgOut, asset, assetOut>>

-----------------------------------------------------------------------------
(* Fixed-point arithmetic *)

FP == 100 * 100

None == << >>
Some(x) == << x >>
IsNone(o) == o = << >>
Val(o) == o[1]

Min(a, b) == IF a < b THEN a ELSE b
Max(a, b) == IF a > b THEN a ELSE b
Abs(x) == IF x < 0 THEN -x ELSE x

\* x * y / FP, rounded toward minus infinity
Mul(x, y) == (x * y) \div FP

\* x / y rounded toward zero, y > 0
QuotS(x, y) == IF x >= 0 THEN x \div y ELSE -((-x) \div y)

\* floor of the square root of a natural number, by bisection on [lo, hi)
RECURSIVE SqrtIter(_, _, _)
SqrtIter(x, lo, hi) ==
    IF hi - lo <= 1 THEN lo
    ELSE LET mid == (lo + hi) \div 2
         IN  IF mid * mid <= x THEN SqrtIter(x, mid, hi)
             ELSE SqrtIter(x, lo, mid)
ISqrt(x) == SqrtIter(x, 0, Min(x, 46340) + 1)

\* np.exp(-x) for 0 <= x <= 1/2 (x in units of 1/FP): the Taylor series
ExpNegSmall(x) ==
    LET x2 == Mul(x, x)
        x3 == Mul(x2, x)
        x4 == Mul(x3, x)
        x5 == Mul(x4, x)
    IN  FP - x + x2 \div 2 - x3 \div 6 + x4 \div 24 - x5 \div 120

\* np.exp(-x) for x >= 0: exp(-x) = exp(-1/2) * exp(-(x - 1/2))
RECURSIVE ExpNeg(_)
ExpNeg(x) ==
    IF x > FP \div 2
    THEN Mul(ExpNeg(x - FP \div 2), ExpNegSmall(FP \div 2))
    ELSE ExpNegSmall(x)

\* z + z^3 / 3 + z^5 / 5, the leading terms of atanh(z)
AtanhSeries(z) ==
    LET z2 == Mul(z, z)
        z3 == QuotS(z2 * z, FP)
        z5 == QuotS(z2 * z3, FP)
    IN  z + QuotS(z3, 3) + QuotS(z5, 5)

\* np.log(x) for 3/4 <= x <= 3/2: 2 * atanh((x - 1) / (x + 1))
LnNear1(x) == 2 * AtanhSeries(QuotS((x - FP) * FP, x + FP))

\* np.log(2) on the fixed-point scale
Ln2 == LnNear1((3 * FP) \div 2) + LnNear1((4 * FP) \div 3)

\* np.log(x) for x > 0: halve or double x into [3/4, 3/2)
RECURSIVE Ln(_)
Ln(x) ==
    IF x <= 0 THEN -(FP * FP)      \* -inf: no curve of the model reaches it
    ELSE IF x * 4 < 3 * FP THEN Ln(2 * x) - Ln2
    ELSE IF x * 2 >= 3 * FP THEN Ln(x \div 2) + Ln2
    ELSE LnNear1(x)

-----------------------------------------------------------------------------
(* EIOPACalibrator: calibration.py *)

\* A time step dt = num / den years
Dt(num, den) == [num |-> num, den |-> den]

\* 1 / (1 + r) ** n
RECURSIVE DiscountPow(_, _)
DiscountPow(r, n) ==
    IF n = 0 THEN FP ELSE (DiscountPow(r, n - 1) * FP) \div (FP + r)

\* _calculate_bond_prices: P(0,T) = 1 / (1 + spot(T))^T with P(0,0) = 1
\* prepended; maturities are 1, 2, 3, ... (the constructor's default)
CalculateBondPrices(spot) ==
    <<FP>> \o [m \in 1..Len(spot) |-> DiscountPow(spot[m], m)]

\* The interpolating cubic of scipy's UnivariateSpline(k=3, s=0) at
\* t = a / d: the cubic through four neighbouring knots (for a four-point
\* curve, the spline itself).  P is indexed from 1, knot x has value P[x+1].
SplineAt(P, a, d) ==
    LET fl == a \div d
        x0 == Max(0, Min(fl - 1, Len(P) - 4))
        N(j) == LET f(k) == IF k = j THEN 1 ELSE a - d * (x0 + k)
                IN  f(0) * f(1) * f(2) * f(3)
        s  == - N(0) * P[x0 + 1] + 3 * N(1) * P[x0 + 2]
              - 3 * N(2) * P[x0 + 3] + N(3) * P[x0 + 4]
        q  == 6 * d * d * d
    IN  IF s >= 0 THEN s \div q ELSE -((-s) \div q)

\* len(np.arange(0, T_max + dt, dt)) = ceil((T_max + dt) / dt)
GridLen(T_max, dt) ==
    ((T_max * dt.den + dt.num) + dt.num - 1) \div dt.num

InterpolateUnpinned(P0t, dt, err) ==
    [i \in 1..GridLen(Len(P0t) - 1, dt) |->
        SplineAt(P0t, (i - 1) * dt.num, dt.den) + err]

\* _interpolate_bond_prices: spline onto the dt grid, then P0t_interp[0] = 1.0
InterpolateBondPrices(P0t, dt, err) ==
    [i \in 1..GridLen(Len(P0t) - 1, dt) |->
        IF i = 1 THEN FP
        ELSE SplineAt(P0t, (i - 1) * dt.num, dt.den) + err]

\* x / dt for a real x
DivDt(x, dt) == IF x >= 0 THEN (x * dt.den) \div dt.num
                ELSE -(((-x) * dt.den) \div dt.num)

\* _calculate_forward_rates: f(0,t) = -d/dt log P(0,t), centred differences
\* inside, one-sided at both ends
CalculateForwardRates(Pi, dt) ==
    LET n == Len(Pi)
        Diff(logP) ==
            [i \in 1..n |->
                IF i = 1 THEN DivDt(-(logP[2] - logP[1]), dt)
                ELSE IF i = n THEN DivDt(-(logP[n] - logP[n - 1]), dt)
                ELSE QuotS(DivDt(-(logP[i + 1] - logP[i - 1]), dt), 2)]
    IN  Diff([i \in 1..n |-> Ln(Pi[i])])

RECURSIVE SumFromTo(_, _, _)
SumFromTo(f, lo, hi) == IF lo > hi THEN 0 ELSE f[lo] + SumFromTo(f, lo + 1, hi)

\* np.mean(f[lo..hi]) (1-based, inclusive)
MeanFromTo(f, lo, hi) ==
    LET s == SumFromTo(f, lo, hi)
        k == hi - lo + 1
    IN  IF s >= 0 THEN s \div k ELSE -((-s) \div k)

\* _smooth_forward_rates.  start_idx = int(smoothing_start / dt),
\* window_size = int(smoothing_window / dt).  The loop runs i upward and
\* each window reads i .. i + window_size, entries it has not yet written,
\* so every mean is over the unsmoothed curve.  Indices below are 0-based
\* as in the source; f is 1-based.
SmoothForwardRates(f, smoothing_start, smoothing_window, dt) ==
    LET n == Len(f)
        start_idx == DivDt(smoothing_start, dt)
        window_size == DivDt(smoothing_window, dt)
        looped(i) == start_idx <= i /\ i < n - window_size
        tail == n - window_size > start_idx
        \* the value at index n - window_size when the tail is filled:
        \* the loop stops one short of it, so it is still f's own value
        last_smooth == f[n - window_size + 1]
    IN  IF start_idx < n
        THEN [k \in 1..n |->
                LET i == k - 1
                IN  IF tail /\ i >= n - window_size + 1 THEN last_smooth
                    ELSE IF looped(i) THEN MeanFromTo(f, i + 1, i + window_size + 1)
                    ELSE f[k]]
        ELSE f

\* __init__
NewCalibrator(spot, dt) ==
    [spot_rates |-> spot, dt |-> dt,
     P0t |-> None, f0t |-> None, P0t_interp |-> None, f0t_interp |-> None]

\* Outcome of a call: what was raised ("none": the call returned) and the
\* returned array
Returned(op, v) == [op |-> op, raised |-> "none", value |-> v]
Raised(op, e) == [op |-> op, raised |-> e, value |-> << >>]

\* _smooth_forward_rates raises IndexError when it reads
\* f0t_smooth[len - window_size] with window_size = 0
SmoothRaises(n, smoothing_start, smoothing_window, dt) ==
    /\ DivDt(smoothing_start, dt) < n
    /\ DivDt(smoothing_window, dt) = 0

\* calibrate(): what the call raises.  Without spot rates it raises before
\* any assignment; with fewer than four curve points (k = 3 needs m > k) the
\* spline constructor raises after self.P0t has been assigned; an IndexError
\* of the smoothing step comes after P0t_interp and f0t_interp have been.
CalibrateRaises(c, smoothing_start, smoothing_window) ==
    IF IsNone(c.spot_rates) THEN "ValueError"
    ELSE IF Len(Val(c.spot_rates)) + 1 < 4 THEN "SplineError"
    ELSE IF SmoothRaises(GridLen(Len(Val(c.spot_rates)), c.dt),
                         smoothing_start, smoothing_window, c.dt)
         THEN "IndexError"
    ELSE "none"

\* calibrate(): the calibrator after the call
CalibrateState(c, smoothing_start, smoothing_window, err) ==
    LET Step4(P0t, Pi, fi) ==
            IF SmoothRaises(Len(fi), smoothing_start, smoothing_window, c.dt)
            THEN [c EXCEPT !.P0t = Some(P0t), !.P0t_interp = Some(Pi),
                           !.f0t_interp = Some(fi)]
            ELSE [c EXCEPT !.P0t = Some(P0t), !.P0t_interp = Some(Pi),
                           !.f0t_interp = Some(fi),
                           !.f0t = Some(SmoothForwardRates(
                               fi, smoothing_start, smoothing_window, c.dt))]
        Step3(P0t, Pi) == Step4(P0t, Pi, CalculateForwardRates(Pi, c.dt))
        Step2(P0t) ==
            IF Len(P0t) < 4 THEN [c EXCEPT !.P0t = Some(P0t)]
            ELSE Step3(P0t, InterpolateBondPrices(P0t, c.dt, err))
    IN  IF IsNone(c.spot_rates) THEN c
        ELSE Step2(CalculateBondPrices(Val(c.spot_rates)))

\* arr[:n] for n >= 0, arr[:n] for n < 0 (all but the last -n), arr for None
Slice(arr, n_steps) ==
    IF IsNone(n_steps) THEN arr
    ELSE LET n == Val(n_steps)
             k == IF n >= 0 THEN Min(n, Len(arr)) ELSE Max(0, Len(arr) + n)
         IN  SubSeq(arr, 1, k)

\* A getter that never raises: it returns the empty array before calibration
GetForwardCurveUnguarded(c, n_steps) ==
    IF IsNone(c.f0t) THEN Returned("get_forward_curve", << >>)
    ELSE Returned("get_forward_curve", Slice(Val(c.f0t), n_steps))

\* get_forward_curve(n_steps)
GetForwardCurve(c, n_steps) ==
    IF IsNone(c.f0t) THEN Raised("get_forward_curve", "ValueError")
    ELSE Returned("get_forward_curve", Slice(Val(c.f0t), n_steps))

\* get_bond_prices(n_steps)
GetBondPrices(c, n_steps) ==
    IF IsNone(c.P0t_interp) THEN Raised("get_bond_prices", "ValueError")
    ELSE Returned("get_bond_prices", Slice(Val(c.P0t_interp), n_steps))

-----------------------------------------------------------------------------
(* numpy's process-wide random stream: np.random.seed, np.random.normal *)

\* The standard-normal values the model's streams take (in units of one
\* standard deviation): an ordinary draw and two eight-sigma draws
ShockVals == <<1, 8, -8>>

StreamPrefix == 2   \* leading positions of a stream, one digit of the seed each
StreamCycle == 3    \* later positions cycle through this many further digits

RECURSIVE Pow3(_)
Pow3(k) == IF k = 0 THEN 1 ELSE 3 * Pow3(k - 1)

\* The pos-th value of the stream that np.random.seed(seed) starts: a fixed
\* function of (seed, pos), here read off the base-3 digits of the seed
NormalAt(seed, pos) ==
    LET idx == IF pos < StreamPrefix THEN pos
               ELSE StreamPrefix + ((pos - StreamPrefix) % StreamCycle)
    IN  ShockVals[1 + ((seed \div Pow3(idx)) % 3)]

\* np.random.seed(seed)
Seeded(seed) == [seed |-> seed, pos |-> 0]

\* The state after k variates have been drawn from state r
Advance(r, k) == [r EXCEPT !.pos = r.pos + k]

-----------------------------------------------------------------------------
(* HullWhiteModel: hull_white.py *)

\* __init__: the fields; n_steps = int(T / dt)
NewHullWhite(a, sigma, f0t, P0t, dt, n_scenarios, T) ==
    [a |-> a, sigma |-> sigma, f0t |-> f0t, P0t |-> P0t, dt |-> dt,
     n_scenarios |-> n_scenarios, T |-> T, n_steps |-> DivDt(T, dt)]

\* _validate_parameters: TRUE when it raises ValueError
HullWhiteInvalid(m) ==
    \/ m.a <= 0
    \/ m.sigma <= 0
    \/ m.dt.num <= 0
    \/ m.n_scenarios <= 0
    \/ Len(m.f0t) < m.n_steps
    \/ Len(m.P0t) < m.n_steps

\* a * t for t = steps * dt
ATimes(a, steps, dt) == (a * steps * dt.num) \div dt.den

\* K(t) = (1 - exp(-a t)) / a at t = steps * dt
K(steps, m) ==
    IF m.a = 0 THEN (FP * steps * m.dt.num) \div m.dt.den
    ELSE ((FP - ExpNeg(ATimes(m.a, steps, m.dt))) * FP) \div m.a

\* L(t) = sigma^2 / (2 a) * (1 - exp(-2 a t)) at t = steps * dt, in units
\* of 1 / FP^2 (a variance of squared rates)
L(steps, m) ==
    IF m.a = 0 THEN (m.sigma * m.sigma * steps * m.dt.num) \div m.dt.den
    ELSE (m.sigma * m.sigma * (FP - ExpNeg(2 * ATimes(m.a, steps, m.dt))))
             \div (2 * m.a)

\* np.sqrt(L_dt), in units of 1 / FP
SqrtLdt(m) == ISqrt(L(1, m))

\* The drift of r from step i to step i + 1 (i counted from 0), given r[i]
Drift(m, r, i) ==
    LET Sum(E, K_Tp, K_tp) ==
            Mul(r, E) + m.f0t[i + 2] - Mul(m.f0t[i + 1], E)
            + Mul(Mul(m.sigma, Mul(K_Tp, K_Tp) - Mul(E, Mul(K_tp, K_tp))),
                  m.sigma) \div 2
    IN  Sum(ExpNeg(ATimes(m.a, 1, m.dt)), K(i + 1, m), K(i, m))

\* Rt[:, i + 1] given r[i] and Rt[:, i] (i counted from 0)
NextR(m, r, Rprev, i) ==
    LET log_ratio == IF i < Len(m.P0t) - 1
                     THEN -Ln((m.P0t[i + 2] * FP) \div m.P0t[i + 1])
                     ELSE Rprev
        Sum(Kdt) == log_ratio + (Mul(Kdt, Kdt) * L(i, m)) \div (2 * FP * FP)
                    - Mul(Kdt, m.f0t[i + 1] - r)
    IN  Sum(K(1, m))

\* One scenario: the short-rate path rt and the path Rt, from the shocks of
\* its n_steps - 1 steps.  rt[0] = f0t[0]; Rt[0] stays 0.  The record keeps
\* the scenario's entries of the `shocks` vectors next to the two paths.
SimulatePath(m, shocks) ==
    LET rt[j \in 1..m.n_steps] ==
            IF j = 1 THEN m.f0t[1]
            ELSE Drift(m, rt[j - 1], j - 2) + SqrtLdt(m) * shocks[j - 1]
        Rt[j \in 1..m.n_steps] ==
            IF j = 1 THEN 0
            ELSE NextR(m, rt[j - 1], Rt[j - 1], j - 2)
    IN  [rt |-> rt, Rt |-> Rt, shocks |-> shocks]

\* Variates one step draws for n_sim scenarios
DrawsPerStep(n_sim, use_antithetic) ==
    IF use_antithetic THEN n_sim \div 2 ELSE n_sim

\* The shock of scenario k (from 1) at step i (from 0): each step draws a
\* fresh vector, shocks_half followed by -shocks_half when antithetic
ShockOf(r, n_sim, use_antithetic, k, i) ==
    LET d == DrawsPerStep(n_sim, use_antithetic)
        base == r.pos + i * d
    IN  IF use_antithetic /\ k > d
        THEN -NormalAt(r.seed, base + (k - d - 1))
        ELSE NormalAt(r.seed, base + (k - 1))

\* The simulation loop for n_sim scenarios, drawing from random state r:
\* the paths, one record [rt, Rt] per scenario
SimulatePaths(m, n_sim, use_antithetic, r) ==
    [k \in 1..n_sim |->
        SimulatePath(m, [i \in 1..(m.n_steps - 1) |->
                            ShockOf(r, n_sim, use_antithetic, k, i - 1)])]

\* The vector `shocks` of every step of the loop, shocks[i][k] for step i
\* (from 1) and scenario k
StepShocks(m, n_sim, use_antithetic, r) ==
    [i \in 1..(m.n_steps - 1) |->
        [k \in 1..n_sim |-> ShockOf(r, n_sim, use_antithetic, k, i - 1)]]

SimulationDraws(m, n_sim, use_antithetic) ==
    (m.n_steps - 1) * DrawsPerStep(n_sim, use_antithetic)

\* np.any(Rt > lim_high, axis=1) | np.any(Rt < lim_low, axis=1) for one path
Explosive(path, lim_high, lim_low) ==
    \E j \in 1..Len(path.Rt) : path.Rt[j] > lim_high \/ path.Rt[j] < lim_low

\* arr[mask]: the paths satisfying Keep, in order
RECURSIVE Filter(_, _, _)
Filter(paths, lim_high, lim_low) ==
    IF paths = << >> THEN << >>
    ELSE LET rest == Filter(Tail(paths), lim_high, lim_low)
         IN  IF Explosive(Head(paths), lim_high, lim_low) THEN rest
             ELSE <<Head(paths)>> \o rest

\* arr[:n]
Take(arr, n) == SubSeq(arr, 1, Min(n, Len(arr)))

max_attempts == 10

\* A replacement loop that goes on after an attempt has yielded enough paths
RECURSIVE ReplacementNoEarlyReturn(_, _, _, _, _, _, _)
ReplacementNoEarlyReturn(m, n_needed, lim_high, lim_low, use_antithetic, r, attempt) ==
    LET n_sim == IF use_antithetic THEN (n_needed \div 2) * 2 ELSE n_needed
        Rest(rec, good) == [rec EXCEPT !.good = <<Len(good)>> \o @]
        Check(new, r1, good) ==
            IF attempt >= max_attempts
            THEN [paths |-> Take(new, n_needed), rng |-> r1,
                  good |-> <<Len(good)>>, exhausted |-> TRUE]
            ELSE Rest(ReplacementNoEarlyReturn(m, n_needed, lim_high, lim_low,
                                               use_antithetic, r1, attempt + 1),
                      good)
        Attempt(new, r1) == Check(new, r1, Filter(new, lim_high, lim_low))
    IN  Attempt(SimulatePaths(m, n_sim, use_antithetic, r),
                Advance(r, SimulationDraws(m, n_sim, use_antithetic)))

\* _generate_replacement_scenarios, from attempt number `attempt` (from 1)
\* on: [paths, rng, good], good being the number of non-explosive paths of
\* each attempt made.  lim_high and lim_low are continuous rates here.
RECURSIVE ReplacementFrom(_, _, _, _, _, _, _)
ReplacementFrom(m, n_needed, lim_high, lim_low, use_antithetic, r, attempt) ==
    LET n_sim == IF use_antithetic THEN (n_needed \div 2) * 2 ELSE n_needed
        Rest(rec, good) == [rec EXCEPT !.good = <<Len(good)>> \o @]
        Check(new, r1, good) ==
            IF Len(good) >= n_needed
            THEN [paths |-> Take(good, n_needed), rng |-> r1,
                  good |-> <<Len(good)>>, exhausted |-> FALSE]
            ELSE IF attempt >= max_attempts
            THEN [paths |-> Take(new, n_needed), rng |-> r1,
                  good |-> <<Len(good)>>, exhausted |-> TRUE]
            ELSE Rest(ReplacementFrom(m, n_needed, lim_high, lim_low,
                                      use_antithetic, r1, attempt + 1), good)
        Attempt(new, r1) == Check(new, r1, Filter(new, lim_high, lim_low))
    IN  Attempt(SimulatePaths(m, n_sim, use_antithetic, r),
                Advance(r, SimulationDraws(m, n_sim, use_antithetic)))

GenerateReplacementScenarios(m, n_needed, lim_high, lim_low, use_antithetic, r) ==
    ReplacementFrom(m, n_needed, lim_high, lim_low, use_antithetic, r, 1)

\* The filter with a retry test that includes the ceiling itself
FilterExplosiveScenariosInclusive(m, paths, lim_high, lim_low, max_retries, use_antithetic, r) ==
    LET Result(kept, retry, rep) ==
            [paths |-> Take(IF retry THEN kept \o rep.paths ELSE kept,
                            m.n_scenarios),
             rng |-> IF retry THEN rep.rng ELSE r,
             n_bad |-> Len(paths) - Len(kept),
             n_needed |-> m.n_scenarios - Len(kept),
             retried |-> retry,
             good |-> IF retry THEN rep.good ELSE << >>,
             warnings |-> (IF Len(paths) - Len(kept) > 0 THEN {"filtered"}
                           ELSE {})
                          \cup (IF retry /\ rep.exhausted
                                THEN {"could_not_generate"} ELSE {})]
        Retry(kept, lim_high_cont, lim_low_cont, n_bad, n_needed) ==
            Result(kept,
                   /\ n_needed > 0
                   /\ Len(paths) > 0
                   /\ n_bad * 100 <= max_retries * Len(paths),
                   GenerateReplacementScenarios(m, n_needed, lim_high_cont,
                                                lim_low_cont, use_antithetic, r))
        Remove(kept, lim_high_cont, lim_low_cont) ==
            Retry(kept, lim_high_cont, lim_low_cont,
                  Len(paths) - Len(kept), m.n_scenarios - Len(kept))
        Limits(lim_high_cont, lim_low_cont) ==
            Remove(Filter(paths, lim_high_cont, lim_low_cont),
                   lim_high_cont, lim_low_cont)
    IN  Limits(Ln(FP + lim_high), Ln(FP + lim_low))

\* _filter_explosive_scenarios.  pct_removed = n_bad / len(Rt) * 100 is nan
\* for an empty Rt, and nan < max_retries is False.  The result adds to the
\* filtered paths what the call did: the warnings it issued, the attempts.
FilterExplosiveScenarios(m, paths, lim_high, lim_low, max_retries, use_antithetic, r) ==
    LET Result(kept, retry, rep) ==
            [paths |-> Take(IF retry THEN kept \o rep.paths ELSE kept,
                            m.n_scenarios),
             rng |-> IF retry THEN rep.rng ELSE r,
             n_bad |-> Len(paths) - Len(kept),
             n_needed |-> m.n_scenarios - Len(kept),
             retried |-> retry,
             good |-> IF retry THEN rep.good ELSE << >>,
             warnings |-> (IF Len(paths) - Len(kept) > 0 THEN {"filtered"}
                           ELSE {})
                          \cup (IF retry /\ rep.exhausted
                                THEN {"could_not_generate"} ELSE {})]
        Retry(kept, lim_high_cont, lim_low_cont, n_bad, n_needed) ==
            Result(kept,
                   /\ n_needed > 0
                   /\ Len(paths) > 0
                   /\ n_bad * 100 < max_retries * Len(paths),
                   GenerateReplacementScenarios(m, n_needed, lim_high_cont,
                                                lim_low_cont, use_antithetic, r))
        Remove(kept, lim_high_cont, lim_low_cont) ==
            Retry(kept, lim_high_cont, lim_low_cont,
                  Len(paths) - Len(kept), m.n_scenarios - Len(kept))
        Limits(lim_high_cont, lim_low_cont) ==
            Remove(Filter(paths, lim_high_cont, lim_low_cont),
                   lim_high_cont, lim_low_cont)
    IN  Limits(Ln(FP + lim_high), Ln(FP + lim_low))

\* np.exp(-x) for any x
ExpAny(x) == IF x >= 0 THEN ExpNeg(x) ELSE (FP * FP) \div ExpNeg(-x)

RECURSIVE CumSum(_)
CumSum(row) ==
    IF row = << >> THEN << >>
    ELSE LET init == CumSum(SubSeq(row, 1, Len(row) - 1))
         IN  init \o <<(IF init = << >> THEN 0 ELSE init[Len(init)])
                       + row[Len(row)]>>

\* The discount 1 - exp(-cumsum(Rt)) in place of the deflator
CalculateDiscounts(Rt) ==
    [k \in 1..Len(Rt) |->
        LET c == CumSum(Rt[k]) IN [j \in 1..Len(c) |-> FP - ExpAny(c[j])]]

\* _calculate_deflators: exp(-cumsum(Rt)) along each path
CalculateDeflators(Rt) ==
    [k \in 1..Len(Rt) |->
        LET c == CumSum(Rt[k]) IN [j \in 1..Len(c) |-> ExpAny(c[j])]]

\* The residuals without the division by sqrt(L(dt))
ExtractResidualsUnscaled(m, rt) ==
    [k \in 1..Len(rt) |->
        [j \in 1..Len(rt[k]) |->
            IF j = 1 THEN 0
            ELSE rt[k][j] - Drift(m, rt[k][j - 1], j - 2)]]

\* _extract_residuals: (rt[i+1] - drift) / sqrt(L(dt)), 0 at step 0
ExtractResiduals(m, rt) ==
    [k \in 1..Len(rt) |->
        [j \in 1..Len(rt[k]) |->
            IF j = 1 THEN 0
            ELSE QuotS(rt[k][j] - Drift(m, rt[k][j - 1], j - 2), SqrtLdt(m))]]

\* generate_scenarios: its outcome.  `value` is the returned dictionary; the
\* other fields tell what the call did.
GenerateScenarios(m, lim_high, lim_low, max_retries, use_antithetic, r) ==
    LET n_sim == IF use_antithetic THEN (m.n_scenarios \div 2) * 2
                 ELSE m.n_scenarios
        Return(flt, Rt, rt) ==
            [raised |-> "none",
             value |-> [rt |-> rt, Rt |-> Rt,
                        deflators |-> CalculateDeflators(Rt),
                        residuals |-> ExtractResiduals(m, rt)],
             rng |-> flt.rng,
             n_bad |-> flt.n_bad, n_needed |-> flt.n_needed,
             retried |-> flt.retried, good |-> flt.good,
             warnings |-> flt.warnings,
             shocks |-> StepShocks(m, n_sim, use_antithetic, r),
             path_shocks |-> [k \in 1..Len(flt.paths) |-> flt.paths[k].shocks]]
        Filtered(flt) ==
            Return(flt, [k \in 1..Len(flt.paths) |-> flt.paths[k].Rt],
                        [k \in 1..Len(flt.paths) |-> flt.paths[k].rt])
    IN  IF m.n_steps = 0
        THEN [raised |-> "IndexError", value |-> << >>, rng |-> r,
              n_bad |-> 0, n_needed |-> 0, retried |-> FALSE, good |-> << >>,
              warnings |-> {}, shocks |-> << >>, path_shocks |-> << >>]
        ELSE Filtered(FilterExplosiveScenarios(
                 m, SimulatePaths(m, n_sim, use_antithetic, r), lim_high,
                 lim_low, max_retries, use_antithetic,
                 Advance(r, SimulationDraws(m, n_sim, use_antithetic))))

-----------------------------------------------------------------------------
(* CorrelatedRandomGenerator: correlation.py *)

\*                              Short  Infl   RE    Long  Equity
DEFAULT_CORRELATION_MATRIX ==
    << <<10000,  2500,  3500,  8000,  1500>>,
       << 2500, 10000,  4500,  3000,  1000>>,
       << 3500,  4500, 10000,  4000,  5000>>,
       << 8000,  3000,  4000, 10000,  2000>>,
       << 1500,  1000,  5000,  2000, 10000>> >>

DEFAULT_ASSET_NAMES ==
    <<"short_rate", "inflation", "real_estate", "long_rate", "equity">>

\* One row of the factor: row holds its entries left of column j, done the
\* rows above it.  An entry whose pivot is 0 is left 0
RECURSIVE CholeskyRow(_, _, _, _)
CholeskyRow(A, done, i, row) ==
    LET j == Len(row) + 1
        n == Len(A)
        Rest(other) ==
            A[i][j] - SumFromTo([q \in 1..(j - 1) |-> Mul(row[q], other[q])],
                                1, j - 1)
        Diagonal(rest) == IF rest <= 0 THEN 0 ELSE ISqrt(rest * FP)
        Below(rest, pivot) == IF pivot = 0 THEN 0 ELSE QuotS(rest * FP, pivot)
    IN  IF j > n THEN row
        ELSE IF j > i THEN CholeskyRow(A, done, i, Append(row, 0))
        ELSE IF j = i THEN CholeskyRow(A, done, i, Append(row, Diagonal(Rest(row))))
        ELSE CholeskyRow(A, done, i,
                         Append(row, Below(Rest(done[j]), done[j][j])))

RECURSIVE CholeskyRows(_, _)
CholeskyRows(A, done) ==
    IF Len(done) = Len(A) THEN done
    ELSE CholeskyRows(A, Append(done, CholeskyRow(A, done, Len(done) + 1, << >>)))

\* np.linalg.cholesky: the lower-triangular factor, or None (LinAlgError)
\* when a pivot is not positive
Cholesky(A) ==
    LET Factor(lower) ==
            IF \E j \in 1..Len(A) : lower[j][j] = 0 THEN None ELSE Some(lower)
    IN  Factor(CholeskyRows(A, << >>))

\* The regularized retry works below the resolution of FP: its matrix is
\* held in units of 1e-6, in which epsilon = 1e-6 is one unit
Micro == 1000 * 1000

\* a * b in units of 1e-6, without leaving 32 bits
MulMicro(a, b) ==
    LET x1 == Abs(a) \div 1000
        x0 == Abs(a) % 1000
        y1 == Abs(b) \div 1000
        y0 == Abs(b) % 1000
        p == x1 * y1 + (x1 * y0 + x0 * y1 + (x0 * y0) \div 1000) \div 1000
    IN  IF (a < 0) = (b < 0) THEN p ELSE -p

\* a / b in units of 1e-6, b > 0, without leaving 32 bits
DivMicro(a, b) ==
    LET q == ((Abs(a) * 1000) \div b) * 1000
                 + (((Abs(a) * 1000) % b) * 1000) \div b
    IN  IF a < 0 THEN -q ELSE q

\* sqrt(x) in units of 1e-6
SqrtMicro(x) == ISqrt(x * 100) * 100

\* correlation_matrix + epsilon * np.eye(n), in units of 1e-6
Regularized(A, epsilon) ==
    [i \in 1..Len(A) |->
        [j \in 1..Len(A) |->
            IF i = j THEN A[i][j] * (Micro \div FP) + epsilon
            ELSE A[i][j] * (Micro \div FP)]]

\* One row of the factor of a matrix held in units of 1e-6
RECURSIVE CholeskyRowMicro(_, _, _, _)
CholeskyRowMicro(A, done, i, row) ==
    LET j == Len(row) + 1
        n == Len(A)
        Rest(other) ==
            A[i][j] - SumFromTo([q \in 1..(j - 1) |-> MulMicro(row[q], other[q])],
                                1, j - 1)
        Diagonal(rest) == IF rest <= 0 THEN 0 ELSE SqrtMicro(rest)
        Below(rest, pivot) == IF pivot = 0 THEN 0 ELSE DivMicro(rest, pivot)
    IN  IF j > n THEN row
        ELSE IF j > i THEN CholeskyRowMicro(A, done, i, Append(row, 0))
        ELSE IF j = i
        THEN CholeskyRowMicro(A, done, i, Append(row, Diagonal(Rest(row))))
        ELSE CholeskyRowMicro(A, done, i,
                              Append(row, Below(Rest(done[j]), done[j][j])))

RECURSIVE CholeskyRowsMicro(_, _)
CholeskyRowsMicro(A, done) ==
    IF Len(done) = Len(A) THEN done
    ELSE CholeskyRowsMicro(
             A, Append(done, CholeskyRowMicro(A, done, Len(done) + 1, << >>)))

\* np.linalg.cholesky(regularized): the factor on the scale of FP, or None
CholeskyMicro(A) ==
    LET Factor(lower) ==
            IF \E j \in 1..Len(A) : lower[j][j] = 0 THEN None
            ELSE Some([i \in 1..Len(A) |->
                          [j \in 1..Len(A) |->
                              QuotS(lower[i][j], Micro \div FP)]])
    IN  Factor(CholeskyRowsMicro(A, << >>))

\* _compute_cholesky: on LinAlgError retry with epsilon = 1e-6 on the diagonal
ComputeCholesky(A) ==
    LET Retry(first) ==
            IF IsNone(first) THEN CholeskyMicro(Regularized(A, 1))
            ELSE first
    IN  Retry(Cholesky(A))

\* The asset's index in asset_names (0 when absent)
AssetIndex(asset_names, asset_name) ==
    IF \E i \in 1..Len(asset_names) : asset_names[i] = asset_name
    THEN CHOOSE i \in 1..Len(asset_names) : asset_names[i] = asset_name
    ELSE 0

\* CorrelatedRandomGenerator.__init__ with the default matrix and names
NewCorrelatedRandomGenerator(n_scenarios, n_steps, use_antithetic, random_seed) ==
    [correlation_matrix |-> DEFAULT_CORRELATION_MATRIX,
     asset_names |-> DEFAULT_ASSET_NAMES,
     n_assets |-> Len(DEFAULT_CORRELATION_MATRIX),
     n_scenarios |-> n_scenarios, n_steps |-> n_steps,
     use_antithetic |-> use_antithetic, random_seed |-> random_seed,
     cholesky_matrix |-> Val(ComputeCholesky(DEFAULT_CORRELATION_MATRIX))]

\* A constructor that leaves the stream alone
SeedIfGivenKeepsStream(random_seed, r) == r

\* The random state after __init__: np.random.seed(random_seed) if given
SeedIfGiven(random_seed, r) ==
    IF IsNone(random_seed) THEN r ELSE Seeded(Val(random_seed))

\* A concatenation of shocks_half with itself, not with its negation
GenerateIndependentShocksUnpaired(g, n_assets, n_scenarios, n_steps, r) ==
    LET rows == IF g.use_antithetic THEN n_scenarios \div 2 ELSE n_scenarios
        At(a, k, t) ==
            NormalAt(r.seed, r.pos + ((a - 1) * rows + (k - 1)) * n_steps + (t - 1))
    IN  [a \in 1..n_assets |->
            [k \in 1..(IF g.use_antithetic THEN 2 * rows ELSE rows) |->
                [t \in 1..n_steps |->
                    IF k > rows THEN At(a, k - rows, t) ELSE At(a, k, t)]]]

\* _generate_independent_shocks: shocks[a][k][t] for n_assets assets, drawn
\* in one np.random.normal call of shape (n_assets, n_half, n_steps), the
\* second half of the scenarios being the negated first half
GenerateIndependentShocks(g, n_assets, n_scenarios, n_steps, r) ==
    LET rows == IF g.use_antithetic THEN n_scenarios \div 2 ELSE n_scenarios
        At(a, k, t) ==
            NormalAt(r.seed, r.pos + ((a - 1) * rows + (k - 1)) * n_steps + (t - 1))
    IN  [a \in 1..n_assets |->
            [k \in 1..(IF g.use_antithetic THEN 2 * rows ELSE rows) |->
                [t \in 1..n_steps |->
                    IF k > rows THEN -At(a, k - rows, t) ELSE At(a, k, t)]]]

IndependentDraws(g, n_assets, n_scenarios, n_steps) ==
    n_assets * n_steps
        * (IF g.use_antithetic THEN n_scenarios \div 2 ELSE n_scenarios)

\* _apply_correlation: cholesky_matrix @ epsilon_t at every step t; the
\* independent shocks are in standard deviations, the result is scaled by FP
ApplyCorrelation(g, independent_shocks) ==
    LET n_assets == Len(independent_shocks)
        n_scenarios == Len(independent_shocks[1])
    IN  [a \in 1..n_assets |->
            [k \in 1..n_scenarios |->
                [t \in 1..Len(independent_shocks[1][k]) |->
                    SumFromTo([b \in 1..n_assets |->
                                  g.cholesky_matrix[a][b]
                                      * independent_shocks[b][k][t]],
                              1, n_assets)]]]

\* generate(rate_residuals): the residuals take the place of the first
\* asset; np.vstack raises ValueError when the drawn shocks have another
\* number of scenarios than the residuals.  [raised, shocks, rng, drawn]
CorrGenerate(g, rate_residuals, r) ==
    LET n_sim == Len(rate_residuals)
        n_steps == IF n_sim = 0 THEN g.n_steps ELSE Len(rate_residuals[1])
        drawn == IndependentDraws(g, g.n_assets - 1, n_sim, n_steps)
        Stack(independent) ==
            IF Len(independent[1]) # n_sim
            THEN [raised |-> "ValueError", shocks |-> << >>,
                  rng |-> Advance(r, drawn), drawn |-> drawn,
                  independent |-> independent]
            ELSE [raised |-> "none",
                  shocks |-> ApplyCorrelation(g, <<rate_residuals>> \o independent),
                  rng |-> Advance(r, drawn), drawn |-> drawn,
                  independent |-> independent]
    IN  Stack(GenerateIndependentShocks(g, g.n_assets - 1, n_sim, n_steps, r))

\* get_asset_shocks: shocks_cube[asset_idx, :, :]
GetAssetShocks(g, shocks_cube, asset_name) ==
    shocks_cube[AssetIndex(g.asset_names, asset_name)]

\* generate() without residuals: every asset's shocks are drawn, for
\* n_scenarios // 2 * 2 scenarios when antithetic
CorrGenerateAll(g, r) ==
    LET n_sim == IF g.use_antithetic THEN (g.n_scenarios \div 2) * 2
                 ELSE g.n_scenarios
        drawn == IndependentDraws(g, g.n_assets, n_sim, g.n_steps)
        Correlate(independent) ==
            [raised |-> "none", shocks |-> ApplyCorrelation(g, independent),
             rng |-> Advance(r, drawn), drawn |-> drawn,
             independent |-> independent]
    IN  Correlate(GenerateIndependentShocks(g, g.n_assets, n_sim, g.n_steps, r))

\* np.allclose(a, b): |a - b| <= 1e-8 + 1e-5 * |b|, a and b on the scale of FP
AllClose(a, b) == Abs(a - b) <= (Abs(b) + 10) \div 100000

\* shape[0] = shape[1] of a matrix given as its rows
IsSquare(A) == Len(A[1]) = Len(A)

\* np.allclose(correlation_matrix, correlation_matrix.T)
IsSymmetric(A) ==
    \A i \in 1..Len(A) : \A j \in 1..Len(A) : AllClose(A[i][j], A[j][i])

\* (correlation_matrix + correlation_matrix.T) / 2
Symmetrized(A) ==
    [i \in 1..Len(A) |-> [j \in 1..Len(A) |-> QuotS(A[i][j] + A[j][i], 2)]]

\* np.allclose(np.diag(correlation_matrix), 1.0)
HasUnitDiagonal(A) == \A i \in 1..Len(A) : AllClose(A[i][i], FP)

\* np.sqrt(np.diag(..)) is nan for a negative entry and the division is by
\* zero for a zero entry: the normalized matrix then holds nan or inf
NormalizesToNonFinite(A) == \E i \in 1..Len(A) : A[i][i] <= 0

\* correlation_matrix / np.outer(std_devs, std_devs), positive diagonal
Normalized(A) ==
    LET std_devs == [i \in 1..Len(A) |-> ISqrt(A[i][i] * FP)]
    IN  [i \in 1..Len(A) |->
            [j \in 1..Len(A) |->
                QuotS(A[i][j] * FP, Mul(std_devs[i], std_devs[j]))]]

\* np.any(np.linalg.eigvalsh(correlation_matrix) < -1e-8) for a finite
\* symmetric matrix.  A matrix with a Cholesky factor has no negative
\* eigenvalue; a 2 x 2 matrix has one when its determinant or its trace is
\* negative; beyond that a negative 2 x 2 principal minor is looked for
HasNegativeEigenvalue(A) ==
    /\ IsNone(Cholesky(A))
    /\ \/ \E i \in 1..Len(A) : A[i][i] < 0
       \/ \E i \in 1..Len(A) : \E j \in 1..Len(A) :
              i < j /\ A[i][i] * A[j][j] < A[i][j] * A[j][i]

\* What the linear-algebra library does with a matrix holding nan: eigvalsh
\* raises LinAlgError or returns nan (which no comparison finds negative),
\* and cholesky raises LinAlgError or returns nan
LapackOnNaN == {"eigvalsh raises", "cholesky raises", "nan"}

\* _validate_inputs: [raised, correlation_matrix, nonfinite, symmetrized,
\* normalized]
ValidateInputs(correlation_matrix, asset_names, lapack) ==
    LET Result(raised, A, nonfinite, symmetrized, normalized) ==
            [raised |-> raised, correlation_matrix |-> A,
             nonfinite |-> nonfinite, symmetrized |-> symmetrized,
             normalized |-> normalized]
        Names(A, nonfinite, symmetrized, normalized) ==
            Result(IF Len(asset_names) # Len(correlation_matrix)
                   THEN "ValueError" ELSE "none",
                   A, nonfinite, symmetrized, normalized)
        Eigen(A, nonfinite, symmetrized, normalized) ==
            IF nonfinite
            THEN (IF lapack = "eigvalsh raises"
                  THEN Result("LinAlgError", A, TRUE, symmetrized, normalized)
                  ELSE Names(A, TRUE, symmetrized, normalized))
            ELSE IF HasNegativeEigenvalue(A)
            THEN Result("ValueError", A, FALSE, symmetrized, normalized)
            ELSE Names(A, FALSE, symmetrized, normalized)
        Diagonal(A, symmetrized) ==
            IF HasUnitDiagonal(A) THEN Eigen(A, FALSE, symmetrized, FALSE)
            ELSE IF NormalizesToNonFinite(A) THEN Eigen(A, TRUE, symmetrized, TRUE)
            ELSE Eigen(Normalized(A), FALSE, symmetrized, TRUE)
    IN  IF ~IsSquare(correlation_matrix)
        THEN Result("ValueError", correlation_matrix, FALSE, FALSE, FALSE)
        ELSE IF IsSymmetric(correlation_matrix)
        THEN Diagonal(correlation_matrix, FALSE)
        ELSE Diagonal(Symmetrized(correlation_matrix), TRUE)

\* _compute_cholesky with what it did: [raised, cholesky_matrix, attempts,
\* regularized]
ComputeCholeskyTraced(A, nonfinite, lapack) ==
    LET Result(raised, lower, attempts) ==
            [raised |-> raised, cholesky_matrix |-> lower,
             attempts |-> attempts, regularized |-> attempts = 2]
        Retry(second) ==
            IF IsNone(second) THEN Result("LinAlgError", << >>, 2)
            ELSE Result("none", Val(second), 2)
        First(first) ==
            IF IsNone(first) THEN Retry(CholeskyMicro(Regularized(A, 1)))
            ELSE Result("none", Val(first), 1)
    IN  IF nonfinite
        THEN (IF lapack = "nan" THEN Result("none", << >>, 1)
              ELSE Result("LinAlgError", << >>, 2))
        ELSE First(Cholesky(A))

\* CorrelatedRandomGenerator.__init__ with any matrix and names (None: the
\* defaults): [raised, object, rng, symmetrized, normalized, attempts,
\* regularized]
CorrelatedRandomGeneratorInit(correlation_matrix, asset_names, n_scenarios, n_steps, use_antithetic, random_seed, lapack, r) ==
    LET names == IF IsNone(asset_names) \/ Val(asset_names) = << >>
                 THEN DEFAULT_ASSET_NAMES ELSE Val(asset_names)
        Result(raised, object, after, checked, attempts) ==
            [raised |-> raised, object |-> object, rng |-> after,
             symmetrized |-> checked.symmetrized,
             normalized |-> checked.normalized,
             attempts |-> attempts, regularized |-> attempts = 2]
        Object(checked, factor) ==
            [correlation_matrix |-> checked.correlation_matrix,
             asset_names |-> names,
             n_assets |-> Len(checked.correlation_matrix),
             n_scenarios |-> n_scenarios, n_steps |-> n_steps,
             use_antithetic |-> use_antithetic, random_seed |-> random_seed,
             cholesky_matrix |-> factor.cholesky_matrix,
             nonfinite |-> checked.nonfinite]
        Factored(checked, factor) ==
            IF factor.raised # "none"
            THEN Result(factor.raised, << >>, r, checked, factor.attempts)
            ELSE Result("none", Object(checked, factor),
                        SeedIfGiven(random_seed, r), checked, factor.attempts)
        Checked(checked) ==
            IF checked.raised # "none"
            THEN Result(checked.raised, << >>, r, checked, 0)
            ELSE Factored(checked,
                          ComputeCholeskyTraced(checked.correlation_matrix,
                                                checked.nonfinite, lapack))
    IN  Checked(ValidateInputs(IF IsNone(correlation_matrix)
                               THEN DEFAULT_CORRELATION_MATRIX
                               ELSE Val(correlation_matrix),
                               names, lapack))

\* A reordering that keeps the factor of the matrix before it
ReorderAssetsStaleFactor(g, new_order, lapack) ==
    LET n == g.n_assets
        matrix == [i \in 1..n |->
                      [j \in 1..n |->
                          g.correlation_matrix[new_order[i] + 1][new_order[j] + 1]]]
        names == [i \in 1..n |-> g.asset_names[new_order[i] + 1]]
        Recomputed(factor) ==
            [raised |-> factor.raised,
             object |-> [g EXCEPT !.correlation_matrix = matrix,
                                  !.asset_names = names,
                                  !.cholesky_matrix = @]]
    IN  IF Len(new_order) # n
           \/ {new_order[i] : i \in 1..Len(new_order)} # 0..(n - 1)
        THEN [raised |-> "ValueError", object |-> g]
        ELSE Recomputed(ComputeCholeskyTraced(matrix, g.nonfinite, lapack))

\* A reordering of the matrix that leaves the asset names in place
ReorderAssetsNamesInPlace(g, new_order, lapack) ==
    LET n == g.n_assets
        matrix == [i \in 1..n |->
                      [j \in 1..n |->
                          g.correlation_matrix[new_order[i] + 1][new_order[j] + 1]]]
        names == g.asset_names
        Recomputed(factor) ==
            [raised |-> factor.raised,
             object |-> [g EXCEPT !.correlation_matrix = matrix,
                                  !.asset_names = names,
                                  !.cholesky_matrix =
                                      IF factor.raised = "none"
                                      THEN factor.cholesky_matrix ELSE @]]
    IN  IF Len(new_order) # n
           \/ {new_order[i] : i \in 1..Len(new_order)} # 0..(n - 1)
        THEN [raised |-> "ValueError", object |-> g]
        ELSE Recomputed(ComputeCholeskyTraced(matrix, g.nonfinite, lapack))

\* reorder_assets(new_order), new_order counting from 0: [raised, object]
ReorderAssets(g, new_order, lapack) ==
    LET n == g.n_assets
        matrix == [i \in 1..n |->
                      [j \in 1..n |->
                          g.correlation_matrix[new_order[i] + 1][new_order[j] + 1]]]
        names == [i \in 1..n |-> g.asset_names[new_order[i] + 1]]
        Recomputed(factor) ==
            [raised |-> factor.raised,
             object |-> [g EXCEPT !.correlation_matrix = matrix,
                                  !.asset_names = names,
                                  !.cholesky_matrix =
                                      IF factor.raised = "none"
                                      THEN factor.cholesky_matrix ELSE @]]
    IN  IF Len(new_order) # n
           \/ {new_order[i] : i \in 1..Len(new_order)} # 0..(n - 1)
        THEN [raised |-> "ValueError", object |-> g]
        ELSE Recomputed(ComputeCholeskyTraced(matrix, g.nonfinite, lapack))

-----------------------------------------------------------------------------
(* BlackScholesEquity and RealEstateModel: black_scholes.py, real_estate.py *)

\* x * dt
TimesDt(x, dt) == QuotS(x * dt.num, dt.den)

\* np.sqrt(dt) on the fixed-point scale
SqrtDt(dt) == ISqrt((FP * FP * dt.num) \div dt.den)

\* BlackScholesEquity.__init__, correlation_with_rates at its default 0.0
NewBlackScholesEquity(sigma, dividend_yield, dt, n_scenarios, T) ==
    [sigma |-> sigma, dividend_yield |-> dividend_yield,
     correlation_with_rates |-> 0, dt |-> dt,
     n_scenarios |-> n_scenarios, T |-> T, n_steps |-> DivDt(T, dt)]

\* _calculate_total_returns: 0 at t = 0, then
\* (r[t] + sigma^2 / 2) * dt + sigma * sqrt(dt) * shock[t]
CalculateTotalReturns(e, short_rates, equity_shocks) ==
    LET Returns(vol_term, half_var) ==
            [k \in 1..Len(short_rates) |->
                [t \in 1..Len(short_rates[k]) |->
                    IF t = 1 THEN 0
                    ELSE TimesDt(short_rates[k][t] + half_var, e.dt)
                         + Mul(vol_term, equity_shocks[k][t])]]
    IN  Returns(Mul(e.sigma, SqrtDt(e.dt)), Mul(e.sigma, e.sigma) \div 2)

\* A split whose price return takes the dividend off step 0 as well
EquityGenerateReturnsUnzeroed(e, short_rates, equity_shocks) ==
    LET Split(total, dividend) ==
            [total_returns |-> total,
             dividend_returns |->
                 [k \in 1..Len(total) |->
                     [t \in 1..Len(total[k]) |-> IF t = 1 THEN 0 ELSE dividend]],
             price_returns |->
                 [k \in 1..Len(total) |->
                     [t \in 1..Len(total[k]) |-> total[k][t] - dividend]]]
    IN  Split(CalculateTotalReturns(e, short_rates, equity_shocks),
              TimesDt(Ln(FP + e.dividend_yield), e.dt))

\* BlackScholesEquity.generate_returns with equity_shocks supplied: the
\* shape is that of short_rates; nothing is drawn
EquityGenerateReturns(e, short_rates, equity_shocks) ==
    LET Split(total, dividend) ==
            [total_returns |-> total,
             dividend_returns |->
                 [k \in 1..Len(total) |->
                     [t \in 1..Len(total[k]) |-> IF t = 1 THEN 0 ELSE dividend]],
             price_returns |->
                 [k \in 1..Len(total) |->
                     [t \in 1..Len(total[k]) |->
                         total[k][t] - (IF t = 1 THEN 0 ELSE dividend)]]]
    IN  Split(CalculateTotalReturns(e, short_rates, equity_shocks),
              TimesDt(Ln(FP + e.dividend_yield), e.dt))

\* BlackScholesEquity._validate_parameters
EquityInvalid(e) ==
    \/ e.sigma <= 0
    \/ e.dividend_yield < 0
    \/ ~(-FP <= e.correlation_with_rates /\ e.correlation_with_rates <= FP)
    \/ e.dt.num <= 0

\* np.random.normal(0, 1, (n_scenarios, n_steps)) from random state r, on
\* the scale of FP
DrawNormal(n_scenarios, n_steps, r) ==
    [k \in 1..n_scenarios |->
        [t \in 1..n_steps |->
            FP * NormalAt(r.seed, r.pos + (k - 1) * n_steps + (t - 1))]]

\* _generate_correlated_shocks: rho * rate_shocks + sqrt(1 - rho^2) * an
\* independent draw of the shape of rate_shocks
GenerateCorrelatedShocks(e, rate_shocks, r) ==
    LET Combine(rho, root, independent_shocks) ==
            [k \in 1..Len(rate_shocks) |->
                [t \in 1..Len(rate_shocks[k]) |->
                    Mul(rho, rate_shocks[k][t])
                    + Mul(root, independent_shocks[k][t])]]
    IN  Combine(e.correlation_with_rates,
                ISqrt(FP * FP - e.correlation_with_rates
                                    * e.correlation_with_rates),
                DrawNormal(Len(rate_shocks), Len(rate_shocks[1]), r))

\* generate_returns drawing its shocks whether or not it was given any
EquityGenerateAlwaysDraws(e, short_rates, equity_shocks, rate_shocks, r) ==
    LET n_scenarios == Len(short_rates)
        n_steps == Len(short_rates[1])
        drawn == n_scenarios * n_steps
    IN  [value |-> EquityGenerateReturns(
                       e, short_rates,
                       IF IsNone(equity_shocks)
                       THEN DrawNormal(n_scenarios, n_steps, r)
                       ELSE Val(equity_shocks)),
         rng |-> Advance(r, drawn), drawn |-> drawn]

\* BlackScholesEquity.generate_returns(short_rates, equity_shocks,
\* rate_shocks): when equity_shocks is None the shocks are drawn, combined
\* with rate_shocks if there are any and the correlation is not 0.
\* [value, rng, drawn]
EquityGenerate(e, short_rates, equity_shocks, rate_shocks, r) ==
    LET n_scenarios == Len(short_rates)
        n_steps == Len(short_rates[1])
        correlated == e.correlation_with_rates # 0 /\ ~IsNone(rate_shocks)
        drawn == IF ~IsNone(equity_shocks) THEN 0
                 ELSE IF correlated
                 THEN Len(Val(rate_shocks)) * Len(Val(rate_shocks)[1])
                 ELSE n_scenarios * n_steps
    IN  [value |-> EquityGenerateReturns(
                       e, short_rates,
                       IF ~IsNone(equity_shocks) THEN Val(equity_shocks)
                       ELSE IF correlated
                       THEN GenerateCorrelatedShocks(e, Val(rate_shocks), r)
                       ELSE DrawNormal(n_scenarios, n_steps, r)),
         rng |-> Advance(r, drawn), drawn |-> drawn]

\* RealEstateModel.__init__
NewRealEstateModel(a, sigma, rental_yield, inflation_adjustment, dt, n_scenarios, T) ==
    [a |-> a, sigma |-> sigma, rental_yield |-> rental_yield,
     inflation_adjustment |-> inflation_adjustment, dt |-> dt,
     n_scenarios |-> n_scenarios, T |-> T, n_steps |-> DivDt(T, dt)]

\* K2T_t = (1 - exp(-a dt)) / a and K2T_t2a = (1 - exp(-2 a dt)) / (2 a)
ReK(re) == ((FP - ExpNeg(ATimes(re.a, 1, re.dt))) * FP) \div re.a
ReK2a(re) == ((FP - ExpNeg(2 * ATimes(re.a, 1, re.dt))) * FP) \div (2 * re.a)

\* eta2 = (sigma / a) * (dt - 2 K2T_t + K2T_t2a) ** 0.5
ReEta2(re) ==
    Mul((re.sigma * FP) \div re.a,
        ISqrt(Max(0, TimesDt(FP, re.dt) - 2 * ReK(re) + ReK2a(re)) * FP))

\* kimmo = f0t[t] if t < len(f0t) else f0t[-1]  (t counted from 0)
Kimmo(f0t, t) == IF t < Len(f0t) THEN f0t[t + 1] ELSE f0t[Len(f0t)]

\* An auxiliary rate that starts from the short rate of its scenario
GenerateAuxiliaryRatesFromShort(re, short_rates, f0t, shocks) ==
    LET Path(exp_a_dt, vol, k) ==
            LET r2[t \in 1..Len(short_rates[k])] ==
                    IF t = 1 THEN short_rates[k][1]
                    ELSE Mul(r2[t - 1], exp_a_dt)
                         + Mul(Kimmo(f0t, t - 2), FP - exp_a_dt)
                         + Mul(vol, shocks[k][t - 1])
            IN  r2
        Rates(exp_a_dt, vol) ==
            [k \in 1..Len(short_rates) |-> Path(exp_a_dt, vol, k)]
    IN  Rates(ExpNeg(ATimes(re.a, 1, re.dt)),
              Mul(re.sigma, ISqrt(ReK2a(re) * FP)))

\* _generate_auxiliary_rates: short_rates gives the shape only
GenerateAuxiliaryRates(re, short_rates, f0t, shocks) ==
    LET Path(exp_a_dt, vol, k) ==
            LET r2[t \in 1..Len(short_rates[k])] ==
                    IF t = 1 THEN (IF Len(f0t) > 0 THEN f0t[1] ELSE 0)
                    ELSE Mul(r2[t - 1], exp_a_dt)
                         + Mul(Kimmo(f0t, t - 2), FP - exp_a_dt)
                         + Mul(vol, shocks[k][t - 1])
            IN  r2
        Rates(exp_a_dt, vol) ==
            [k \in 1..Len(short_rates) |-> Path(exp_a_dt, vol, k)]
    IN  Rates(ExpNeg(ATimes(re.a, 1, re.dt)),
              Mul(re.sigma, ISqrt(ReK2a(re) * FP)))

\* _generate_price_returns
GeneratePriceReturns(re, short_rates, f0t, r2, shocks) ==
    LET Returns(K2T_t, eta2) ==
            [k \in 1..Len(short_rates) |->
                [t \in 1..Len(short_rates[k]) |->
                    TimesDt(Kimmo(f0t, t - 1), re.dt)
                    + Mul(r2[k][t] - Kimmo(f0t, t - 1), K2T_t)
                    + Mul(eta2, shocks[k][t])]]
    IN  Returns(ReK(re), ReEta2(re))

\* _generate_rental_returns: base_rental + t * inflation_adj
GenerateRentalReturns(re, n_scenarios, n_steps) ==
    LET Returns(base_rental, inflation_adj) ==
            [k \in 1..n_scenarios |->
                [t \in 1..n_steps |-> base_rental + (t - 1) * inflation_adj]]
    IN  Returns(TimesDt(Ln(FP + re.rental_yield), re.dt),
                TimesDt(re.inflation_adjustment, re.dt))

\* RealEstateModel.generate_returns with both shock arrays supplied
RealEstateGenerateReturns(re, short_rates, f0t, re_price_shocks, re_rental_shocks) ==
    LET n_steps == IF Len(short_rates) = 0 THEN 0 ELSE Len(short_rates[1])
        Total(r2, price, rental) ==
            [total_returns |->
                 [k \in 1..Len(price) |->
                     [t \in 1..Len(price[k]) |-> price[k][t] + rental[k][t]]],
             price_returns |-> price, rental_returns |-> rental,
             auxiliary_rates |-> r2]
        Prices(r2) ==
            Total(r2,
                  GeneratePriceReturns(re, short_rates, f0t, r2, re_price_shocks),
                  GenerateRentalReturns(re, Len(short_rates), n_steps))
    IN  Prices(GenerateAuxiliaryRates(re, short_rates, f0t, re_rental_shocks))

\* RealEstateModel._validate_parameters
RealEstateInvalid(re) ==
    re.a <= 0 \/ re.sigma <= 0 \/ re.rental_yield < 0 \/ re.dt.num <= 0

\* RealEstateModel.generate_returns(short_rates, f0t, re_price_shocks,
\* re_rental_shocks): the price shocks, then the rental shocks, are drawn
\* when None.  [value, rng, drawn]
RealEstateGenerate(re, short_rates, f0t, re_price_shocks, re_rental_shocks, r) ==
    LET n_scenarios == Len(short_rates)
        n_steps == Len(short_rates[1])
        size == n_scenarios * n_steps
        r1 == IF IsNone(re_price_shocks) THEN Advance(r, size) ELSE r
        r2 == IF IsNone(re_rental_shocks) THEN Advance(r1, size) ELSE r1
    IN  [value |-> RealEstateGenerateReturns(
                       re, short_rates, f0t,
                       IF IsNone(re_price_shocks)
                       THEN DrawNormal(n_scenarios, n_steps, r)
                       ELSE Val(re_price_shocks),
                       IF IsNone(re_rental_shocks)
                       THEN DrawNormal(n_scenarios, n_steps, r1)
                       ELSE Val(re_rental_shocks)),
         rng |-> r2, drawn |-> r2.pos - r.pos]

-----------------------------------------------------------------------------
(* ScenarioGenerator: scenario_generator.py *)

CurveYears == 60    \* maturities = np.arange(1, 61)

\* default_params
inflation_mean == 250
inflation_volatility == 150
interest_mean == 300
interest_volatility == 200
equity_drift == 1000
equity_volatility == 1800
bond_return_mean == 500
bond_return_std == 700
real_estate_drift == 800
real_estate_volatility == 1200
gdp_growth_mean == 250
gdp_growth_std == 200
mean_reversion_speed == 1000
hw_volatility == 100
equity_dividend_yield == 200
re_mean_reversion == 1500
re_rental_yield == 300
re_inflation_adj == 200

\* _create_yield_curve: level + slope * (1 - exp(-maturity / 10))
CreateYieldCurve(currency) ==
    LET Curve(level, slope) ==
            [mat \in 1..CurveYears |->
                level + Mul(slope, FP - ExpNeg((mat * FP) \div 10))]
    IN  IF currency = "USD" THEN Curve(250, 200)
        ELSE IF currency = "GBP" THEN Curve(200, 250)
        ELSE Curve(150, 200)

\* EIOPACalibrator(spot_rates, dt) after calibrate() with its defaults
CalibratedCurve(currency, dt) ==
    CalibrateState(NewCalibrator(Some(CreateYieldCurve(currency)), dt), 60, 20, 0)

\* __init__ without its np.random.seed call
InitLeavesStream(random_seed, r) == r

\* __init__(random_seed): the object
NewScenarioGenerator(random_seed) == [random_seed |-> random_seed]

\* __init__: np.random.seed(random_seed) when a seed is given; the random
\* state of the process after the constructor
InitSeedsStream(random_seed, r) ==
    IF IsNone(random_seed) THEN r ELSE Seeded(Val(random_seed))

\* A configuration: a field that is None is absent from the dictionary
Config(num_scenarios, time_horizon, timestep, use_stochastic) ==
    [num_scenarios |-> num_scenarios, time_horizon |-> time_horizon,
     timestep |-> timestep, use_stochastic |-> use_stochastic]

\* _validate_config reporting num_scenarios whichever field is absent
MissingFieldMisnamed(config) ==
    IF IsNone(config.num_scenarios) \/ IsNone(config.time_horizon)
       \/ IsNone(config.timestep)
    THEN Some("num_scenarios")
    ELSE None

\* _validate_config: the first required field that is absent, or None
MissingField(config) ==
    IF IsNone(config.num_scenarios) THEN Some("num_scenarios")
    ELSE IF IsNone(config.time_horizon) THEN Some("time_horizon")
    ELSE IF IsNone(config.timestep) THEN Some("timestep")
    ELSE None

\* _validate_config: the completed configuration
ValidateConfig(config) ==
    [num_scenarios |-> Val(config.num_scenarios),
     time_horizon |-> Val(config.time_horizon),
     timestep |-> Val(config.timestep),
     use_stochastic |-> IF IsNone(config.use_stochastic) THEN FALSE
                        ELSE Val(config.use_stochastic),
     currency |-> "USD"]

\* n_steps = int(time_horizon / timestep)
NSteps(config) == DivDt(config.time_horizon, config.timestep)

\* What generate did: the exception raised ("none": it returned) with the
\* field it names, the returned tables, the variates drawn, the rate paths
\* generated and the random state it left
Outcome(raised, field, scenarios, deflators, diagnostics, drawn, paths, r) ==
    [raised |-> raised, field |-> field, scenarios |-> scenarios,
     deflators |-> deflators, diagnostics |-> diagnostics,
     drawn |-> drawn, paths |-> paths, rng |-> r, stages |-> << >>]

Failed(raised, field, drawn, paths, r) ==
    Outcome(raised, field, << >>, << >>, << >>, drawn, paths, r)

\* A stage of _generate_stochastic that has finished: what it produced and
\* the random state it started and ended in
Stage(name, output, before, after) ==
    [stage |-> name, output |-> output, before |-> before, after |-> after]

\* The outcome of the statements after a stage, with that stage before them
Staged(out, stage) == [out EXCEPT !.stages = <<stage>> \o @]

\* The mean of one column of the scenarios table (None for an empty table)
ColumnMean(scenarios, Col(_)) ==
    IF scenarios = << >> THEN None
    ELSE Some(QuotS(SumFromTo([i \in 1..Len(scenarios) |-> Col(scenarios[i])],
                              1, Len(scenarios)),
                    Len(scenarios)))

\* _calculate_diagnostics
CalculateDiagnostics(scenarios, method) ==
    LET IR(row) == row.interest_rate
        SR(row) == row.stock_return
        BR(row) == row.bond_return
        RR(row) == row.real_estate_return
        IN_(row) == row.inflation
        GD(row) == row.gdp_growth
    IN  [mean_returns |->
             [interest_rate |-> ColumnMean(scenarios, IR),
              stock_return |-> ColumnMean(scenarios, SR),
              bond_return |-> ColumnMean(scenarios, BR),
              real_estate_return |-> ColumnMean(scenarios, RR),
              inflation |-> ColumnMean(scenarios, IN_),
              gdp_growth |-> ColumnMean(scenarios, GD)],
         num_scenarios |->
             Cardinality({scenarios[i].scenario_id : i \in 1..Len(scenarios)}),
         num_time_periods |->
             Cardinality({scenarios[i].time_period : i \in 1..Len(scenarios)}),
         method |-> method]

\* One row of the scenarios table
Row(scenario_id, time_period, interest, stocks, bonds, real_estate, inflation, gdp) ==
    [scenario_id |-> scenario_id, time_period |-> time_period,
     interest_rate |-> interest, stock_return |-> stocks,
     bond_return |-> bonds, real_estate_return |-> real_estate,
     inflation |-> inflation, gdp_growth |-> gdp]

\* mean + volatility * (w1 * s1 + w2 * s2), the weights in tenths and the
\* shocks in standard deviations
Blend(mean, volatility, w1, s1, w2, s2) ==
    mean + QuotS(volatility * (w1 * s1 + w2 * s2), 10)

\* A table filled step by step, every scenario within each step
GenerateSimpleStepMajor(config, r) ==
    LET n_scenarios == config.num_scenarios
        n_steps == NSteps(config)
        base(k, t) == NormalAt(r.seed, r.pos + (k - 1) * 3 * n_steps + (t - 1))
        infl(k, t) == NormalAt(r.seed, r.pos + (k - 1) * 3 * n_steps + n_steps + (t - 1))
        mkt(k, t) == NormalAt(r.seed, r.pos + (k - 1) * 3 * n_steps + 2 * n_steps + (t - 1))
        RowOf(k, t) ==
            Row(k, TimesDt(t * FP, config.timestep),
                Blend(interest_mean, interest_volatility, 5, base(k, t), 5, infl(k, t)),
                Blend(equity_drift, equity_volatility, 8, mkt(k, t), 2, base(k, t)),
                Blend(bond_return_mean, bond_return_std, -3, mkt(k, t), 7, base(k, t)),
                Blend(real_estate_drift, real_estate_volatility, 5, mkt(k, t), 5, base(k, t)),
                Blend(inflation_mean, inflation_volatility, 7, base(k, t), 3, infl(k, t)),
                Blend(gdp_growth_mean, gdp_growth_std, 6, mkt(k, t), 4, base(k, t)))
        Tables(scenarios) ==
            Outcome("none", None, scenarios,
                    CalculateDeflators(
                        [k \in 1..n_scenarios |->
                            [t \in 1..n_steps |->
                                TimesDt(scenarios[(k - 1) * n_steps + t].interest_rate,
                                        config.timestep)]]),
                    CalculateDiagnostics(scenarios, "simple"),
                    3 * n_steps * Max(n_scenarios, 0), 0,
                    Advance(r, 3 * n_steps * Max(n_scenarios, 0)))
    IN  Tables([i \in 1..(n_scenarios * n_steps) |->
                   RowOf(((i - 1) % n_scenarios) + 1, ((i - 1) \div n_scenarios) + 1)])

\* _generate_simple: per scenario three vectors of n_steps variates (base,
\* inflation, market), six blended series, n_steps rows
GenerateSimple(config, r) ==
    LET n_scenarios == config.num_scenarios
        n_steps == NSteps(config)
        base(k, t) == NormalAt(r.seed, r.pos + (k - 1) * 3 * n_steps + (t - 1))
        infl(k, t) == NormalAt(r.seed, r.pos + (k - 1) * 3 * n_steps + n_steps + (t - 1))
        mkt(k, t) == NormalAt(r.seed, r.pos + (k - 1) * 3 * n_steps + 2 * n_steps + (t - 1))
        RowOf(k, t) ==
            Row(k, TimesDt(t * FP, config.timestep),
                Blend(interest_mean, interest_volatility, 5, base(k, t), 5, infl(k, t)),
                Blend(equity_drift, equity_volatility, 8, mkt(k, t), 2, base(k, t)),
                Blend(bond_return_mean, bond_return_std, -3, mkt(k, t), 7, base(k, t)),
                Blend(real_estate_drift, real_estate_volatility, 5, mkt(k, t), 5, base(k, t)),
                Blend(inflation_mean, inflation_volatility, 7, base(k, t), 3, infl(k, t)),
                Blend(gdp_growth_mean, gdp_growth_std, 6, mkt(k, t), 4, base(k, t)))
        Tables(scenarios) ==
            Outcome("none", None, scenarios,
                    CalculateDeflators(
                        [k \in 1..n_scenarios |->
                            [t \in 1..n_steps |->
                                TimesDt(scenarios[(k - 1) * n_steps + t].interest_rate,
                                        config.timestep)]]),
                    CalculateDiagnostics(scenarios, "simple"),
                    3 * n_steps * Max(n_scenarios, 0), 0,
                    Advance(r, 3 * n_steps * Max(n_scenarios, 0)))
    IN  Tables([i \in 1..(n_scenarios * n_steps) |->
                   RowOf(((i - 1) \div n_steps) + 1, ((i - 1) % n_steps) + 1)])

\* A test that passes on the mean deviation, not the largest one
TestMartingaleOnAverage(deflators) ==
    LET n_scenarios == Len(deflators)
        n_steps == Len(deflators[1])
        tolerance == FP \div 20
        Test(mean_deflator, deviations, max_deviation) ==
            [passes |-> QuotS(SumFromTo(deviations, 1, n_steps), n_steps)
                            < tolerance,
             max_deviation |-> max_deviation,
             mean_deviation |->
                 QuotS(SumFromTo(deviations, 1, n_steps), n_steps),
             tolerance |-> tolerance,
             mean_final_deflator |-> mean_deflator[n_steps]]
        Deviations(mean_deflator, deviations) ==
            Test(mean_deflator, deviations,
                 CHOOSE d \in {deviations[t] : t \in 1..n_steps} :
                     \A t \in 1..n_steps : deviations[t] <= d)
        Means(mean_deflator) ==
            Deviations(mean_deflator,
                       [t \in 1..n_steps |-> Abs(mean_deflator[t] - FP)])
    IN  Means([t \in 1..n_steps |->
                  QuotS(SumFromTo([k \in 1..n_scenarios |-> deflators[k][t]],
                                  1, n_scenarios), n_scenarios)])

\* _test_martingale: the mean deflator of every step against 1, tolerance 0.05
TestMartingale(deflators) ==
    LET n_scenarios == Len(deflators)
        n_steps == Len(deflators[1])
        tolerance == FP \div 20
        Test(mean_deflator, deviations, max_deviation) ==
            [passes |-> max_deviation < tolerance,
             max_deviation |-> max_deviation,
             mean_deviation |->
                 QuotS(SumFromTo(deviations, 1, n_steps), n_steps),
             tolerance |-> tolerance,
             mean_final_deflator |-> mean_deflator[n_steps]]
        Deviations(mean_deflator, deviations) ==
            Test(mean_deflator, deviations,
                 CHOOSE d \in {deviations[t] : t \in 1..n_steps} :
                     \A t \in 1..n_steps : deviations[t] <= d)
        Means(mean_deflator) ==
            Deviations(mean_deflator,
                       [t \in 1..n_steps |-> Abs(mean_deflator[t] - FP)])
    IN  Means([t \in 1..n_steps |->
                  QuotS(SumFromTo([k \in 1..n_scenarios |-> deflators[k][t]],
                                  1, n_scenarios), n_scenarios)])

\* _generate_stochastic, last stage: the nested loop that fills the table
\* reads row scenario_idx of every array for scenario_idx < n_scenarios, and
\* raises IndexError when the Hull-White arrays have fewer rows
StochasticAssemble(config, hwv, equity_shocks, equity, re, inflation_shocks, drawn, r) ==
    LET n_scenarios == config.num_scenarios
        n_steps == NSteps(config)
        RowOf(k, t) ==
            Row(k, TimesDt(t * FP, config.timestep),
                hwv.Rt[k][t], equity.total_returns[k][t], hwv.Rt[k][t],
                re.total_returns[k][t],
                inflation_mean + Mul(inflation_volatility, inflation_shocks[k][t]),
                gdp_growth_mean
                    + Mul(gdp_growth_std,
                          QuotS(6 * equity_shocks[k][t]
                                + 4 * ((hwv.residuals[k][t] * FP * FP)
                                           \div hw_volatility), 10)))
        WithTest(diagnostics) ==
            [mean_returns |-> diagnostics.mean_returns,
             num_scenarios |-> diagnostics.num_scenarios,
             num_time_periods |-> diagnostics.num_time_periods,
             method |-> diagnostics.method,
             martingale_test |-> TestMartingale(hwv.deflators)]
        Tables(scenarios) ==
            Staged(Outcome("none", None, scenarios, hwv.deflators,
                           WithTest(CalculateDiagnostics(scenarios, "stochastic")),
                           drawn, Len(hwv.Rt), r),
                   Stage("assemble", << >>, r, r))
    IN  IF Len(hwv.Rt) < n_scenarios
        THEN Failed("IndexError", None, drawn, Len(hwv.Rt), r)
        ELSE Tables([i \in 1..(n_scenarios * n_steps) |->
                        RowOf(((i - 1) \div n_steps) + 1, ((i - 1) % n_steps) + 1)])

\* A pipeline that hands the real-estate row to the equity model and the
\* equity row to the real-estate model
StochasticAssetsCrossed(config, f0t, hwv, corr, shocks, drawn, r) ==
    LET Assemble(equity_shocks, inflation_shocks, equity, re) ==
            Staged(Staged(StochasticAssemble(config, hwv, equity_shocks, equity,
                                             re, inflation_shocks, drawn, r),
                          Stage("real_estate", re, r, r)),
                   Stage("equity", equity, r, r))
        Models(equity_shocks, re_price_shocks, inflation_shocks) ==
            Assemble(
                equity_shocks, inflation_shocks,
                EquityGenerateReturns(
                    NewBlackScholesEquity(equity_volatility, equity_dividend_yield,
                                          config.timestep, config.num_scenarios,
                                          config.time_horizon),
                    hwv.Rt, equity_shocks),
                RealEstateGenerateReturns(
                    NewRealEstateModel(re_mean_reversion, real_estate_volatility,
                                       re_rental_yield, re_inflation_adj,
                                       config.timestep, config.num_scenarios,
                                       config.time_horizon),
                    hwv.Rt, f0t, re_price_shocks, inflation_shocks))
    IN  Models(GetAssetShocks(corr, shocks, "real_estate"),
               GetAssetShocks(corr, shocks, "equity"),
               GetAssetShocks(corr, shocks, "inflation"))

\* _generate_stochastic from the correlated shocks on: equity, real estate,
\* inflation and GDP from the shocks cube, then the table
StochasticAssets(config, f0t, hwv, corr, shocks, drawn, r) ==
    LET Assemble(equity_shocks, inflation_shocks, equity, re) ==
            Staged(Staged(StochasticAssemble(config, hwv, equity_shocks, equity,
                                             re, inflation_shocks, drawn, r),
                          Stage("real_estate", re, r, r)),
                   Stage("equity", equity, r, r))
        Models(equity_shocks, re_price_shocks, inflation_shocks) ==
            Assemble(
                equity_shocks, inflation_shocks,
                EquityGenerateReturns(
                    NewBlackScholesEquity(equity_volatility, equity_dividend_yield,
                                          config.timestep, config.num_scenarios,
                                          config.time_horizon),
                    hwv.Rt, equity_shocks),
                RealEstateGenerateReturns(
                    NewRealEstateModel(re_mean_reversion, real_estate_volatility,
                                       re_rental_yield, re_inflation_adj,
                                       config.timestep, config.num_scenarios,
                                       config.time_horizon),
                    hwv.Rt, f0t, re_price_shocks, inflation_shocks))
    IN  Models(GetAssetShocks(corr, shocks, "equity"),
               GetAssetShocks(corr, shocks, "real_estate"),
               GetAssetShocks(corr, shocks, "inflation"))

\* _generate_stochastic from the Hull-White result on: the correlated
\* generator is constructed (re-seeding the process-wide stream when the
\* ScenarioGenerator has a seed) and asked for shocks around the residuals
StochasticCorrelate(self, config, f0t, hw_results, r0) ==
    LET hw_drawn == hw_results.rng.pos - r0.pos
        Shocks(corr, constructed, res) ==
            IF res.raised # "none"
            THEN Failed(res.raised, None, hw_drawn + res.drawn,
                        Len(hw_results.value.Rt), res.rng)
            ELSE Staged(StochasticAssets(config, f0t, hw_results.value, corr,
                                         res.shocks, hw_drawn + res.drawn,
                                         res.rng),
                        Stage("correlated_shocks",
                              [shocks |-> res.shocks,
                               independent |-> res.independent,
                               asset_names |-> corr.asset_names],
                              constructed, res.rng))
        Construct(corr, constructed) ==
            Shocks(corr, constructed,
                   CorrGenerate(corr, hw_results.value.residuals, constructed))
        Correlate(corr) ==
            Construct(corr, SeedIfGiven(self.random_seed, hw_results.rng))
    IN  IF hw_results.raised # "none"
        THEN Failed(hw_results.raised, None, hw_drawn, 0, hw_results.rng)
        ELSE Staged(Correlate(NewCorrelatedRandomGenerator(
                        config.num_scenarios, NSteps(config), TRUE,
                        self.random_seed)),
                    Stage("short_rate", hw_results.value, r0, hw_results.rng))

\* _generate_stochastic: calibrate the synthetic curve, take its first
\* n_steps points, construct the Hull-White model (which validates the
\* curve lengths) and simulate with generate_scenarios' defaults
GenerateStochastic(self, config, r) ==
    LET Simulate(m) ==
            IF HullWhiteInvalid(m) THEN Failed("ValueError", None, 0, 0, r)
            ELSE StochasticCorrelate(
                     self, config, m.f0t,
                     GenerateScenarios(m, FP \div 10, -(FP \div 20), 50, TRUE, r), r)
        Calibrated(f0t, P0t) ==
            Staged(Simulate(NewHullWhite(
                       mean_reversion_speed, hw_volatility, f0t, P0t,
                       config.timestep, config.num_scenarios,
                       config.time_horizon)),
                   Stage("calibrate", [f0t |-> f0t, P0t |-> P0t], r, r))
        Curves(calibrator) ==
            Calibrated(GetForwardCurve(calibrator, Some(NSteps(config))).value,
                       GetBondPrices(calibrator, Some(NSteps(config))).value)
    IN  Curves(CalibratedCurve(config.currency, config.timestep))

\* generate(config)
Generate(self, config, r) ==
    IF ~IsNone(MissingField(config))
    THEN Failed("ValueError", MissingField(config), 0, 0, r)
    ELSE IF ValidateConfig(config).use_stochastic
    THEN GenerateStochastic(self, ValidateConfig(config), r)
    ELSE GenerateSimple(ValidateConfig(config), r)

-----------------------------------------------------------------------------
(* The calibrator as an object: construction, calibrate(), the two getters *)

MaxReq == 5     \* largest n_steps a getter is asked for

SpotInputs ==
    {None, Some(<<200, 250>>), Some(<<200, 250, 300>>),
     Some(<<300, 280, 250, 400>>)}
DtInputs == {Dt(1, 1), Dt(1, 2)}
SmoothInputs == {<<60, 20>>, <<1, 1>>, <<1, 0>>}
NStepsInputs == {None} \cup {Some(n) : n \in 0..MaxReq}
FpErrs == {-1, 0, 1}

Idle == [op |-> "none", raised |-> "none", value |-> << >>]

\* The variables of the other components, at rest
HwRest == /\ hw = << >> /\ hwOut = << >>
OrchRest == /\ gens = << >> /\ calls = << >> /\ nCalls = 0
CalRest == /\ cal = << >> /\ calOut = << >> /\ calHist = {} /\ fpErr = 0
CorrRest == /\ crg = << >> /\ crgOut = << >>
AssetRest == /\ asset = << >> /\ assetOut = << >>
RngRest == rng = [seed |-> 0, pos |-> 0]

InitCal ==
    /\ \E spot \in SpotInputs, dt \in DtInputs : cal = NewCalibrator(spot, dt)
    /\ calOut = Idle
    /\ calHist = {}
    /\ fpErr \in FpErrs
    /\ HwRest /\ OrchRest /\ RngRest /\ CorrRest /\ AssetRest

NotCal == <<fpErr, hw, hwOut, rng, gens, calls, nCalls, crg, crgOut, asset, assetOut>>

Construct(spot, dt) ==
    /\ cal' = NewCalibrator(spot, dt)
    /\ calOut' = Idle
    /\ calHist' = {}
    /\ UNCHANGED NotCal

Calibrate(smoothing_start, smoothing_window) ==
    /\ cal' = CalibrateState(cal, smoothing_start, smoothing_window, fpErr)
    /\ calOut' = [op |-> "calibrate",
                  raised |-> CalibrateRaises(cal, smoothing_start,
                                             smoothing_window),
                  value |-> << >>]
    /\ calHist' = calHist \cup
                     {CalibrateRaises(cal, smoothing_start, smoothing_window)}
    /\ UNCHANGED NotCal

\* The outcome of a getter call together with the n_steps it was given
Asked(out, n_steps) ==
    [op |-> out.op, raised |-> out.raised, value |-> out.value,
     n_steps |-> n_steps]

CallGetForwardCurve(n_steps) ==
    /\ calOut' = Asked(GetForwardCurve(cal, n_steps), n_steps)
    /\ UNCHANGED <<cal, calHist>>
    /\ UNCHANGED NotCal

CallGetBondPrices(n_steps) ==
    /\ calOut' = Asked(GetBondPrices(cal, n_steps), n_steps)
    /\ UNCHANGED <<cal, calHist>>
    /\ UNCHANGED NotCal

NextCal ==
    \/ \E spot \in SpotInputs, dt \in DtInputs : Construct(spot, dt)
    \/ \E s \in SmoothInputs : Calibrate(s[1], s[2])
    \/ \E n \in NStepsInputs : CallGetForwardCurve(n)
    \/ \E n \in NStepsInputs : CallGetBondPrices(n)

SpecCal == InitCal /\ [][NextCal]_vars

Getters == {"get_forward_curve", "get_bond_prices"}

\* calibrate() has run to its last assignment on this calibrator
CalCompleted == "none" \in calHist

\* calibrate() was never called, or every call failed for want of spot rates
CalNeverOrNoSpot == calHist \subseteq {"ValueError"}

C8_LengthChecked ==
    (calOut.op \in Getters /\ CalCompleted /\ ~IsNone(calOut.n_steps)) =>
        IF Val(calOut.n_steps) > Len(Val(cal.f0t))
        THEN calOut.raised # "none"
        ELSE calOut.raised = "none" /\ Len(calOut.value) = Val(calOut.n_steps)

\* C9: after a completed calibrate() the raw and the interpolated bond-price
\* curves start at exactly 1, so does what get_bond_prices(n) returns for
\* n >= 1, and a getter call leaves the calibrator's curves as they were.
C9_BondPriceStartsAtOne ==
    /\ [](CalCompleted =>
            /\ Val(cal.P0t)[1] = FP
            /\ Val(cal.P0t_interp)[1] = FP
            /\ \A n \in 1..MaxReq :
                  GetBondPrices(cal, Some(n)).value[1] = FP
            /\ (calOut.op = "get_bond_prices" /\ calOut.value # << >>) =>
                  calOut.value[1] = FP)
    /\ [][(calOut'.op \in Getters) => (cal' = cal)]_vars

\* get_bond_prices has returned a non-empty curve computed with a spline
\* whose value at t = 0 was inexact
C9_Witness ==
    /\ CalCompleted
    /\ fpErr # 0
    /\ calOut.op = "get_bond_prices"
    /\ calOut.raised = "none"
    /\ Len(calOut.value) >= 2

\* Reachability: calibrate() failed part-way and get_bond_prices returned
CalPartialThenBondPrices ==
    /\ ~CalCompleted
    /\ calOut.op = "get_bond_prices" /\ calOut.raised = "none"

-----------------------------------------------------------------------------
(* The short-rate simulator as an object: construction, generate_scenarios *)

MaxScen == 5        \* largest n_scenarios
MaxSeed == 242      \* the streams the process may start in: 0..MaxSeed
MaxHwCalls == 1     \* generate_scenarios calls per behaviour

\* The curves handed to the simulator: a calibrated three-year curve
HwCurve ==
    CalibrateState(NewCalibrator(Some(<<200, 250, 300>>), Dt(1, 1)), 60, 20, 0)

HwHorizons == {0, 1, 3, 5}
HwRetries == {50, 100}

Unbuilt == << >>

InitHW ==
    /\ hw = Unbuilt
    /\ hwOut = Idle
    /\ rng \in {Seeded(s) : s \in 0..MaxSeed}
    /\ nCalls = 0
    /\ gens = << >> /\ calls = << >>
    /\ CalRest /\ CorrRest /\ AssetRest

NotHW == <<cal, calOut, calHist, fpErr, gens, calls, crg, crgOut, asset, assetOut>>

\* HullWhiteModel(a=0.1, sigma=0.01, f0t, P0t, dt=1, n_scenarios, T)
HwConstruct(n_scenarios, T) ==
    /\ hw = Unbuilt
    /\ \E m \in {NewHullWhite(FP \div 10, FP \div 100, Val(HwCurve.f0t),
                               Val(HwCurve.P0t_interp), Dt(1, 1), n_scenarios, T)} :
        /\ IF HullWhiteInvalid(m)
           THEN /\ hwOut' = Raised("__init__", "ValueError")
                /\ hw' = hw
           ELSE /\ hwOut' = Returned("__init__", << >>)
                /\ hw' = m
        /\ UNCHANGED <<rng, nCalls>>
        /\ UNCHANGED NotHW

\* generate_scenarios(lim_high=0.1, lim_low=-0.05, max_retries, use_antithetic)
HwGenerate(max_retries, use_antithetic) ==
    /\ hw # Unbuilt
    /\ nCalls < MaxHwCalls
    /\ \E out \in {GenerateScenarios(hw, FP \div 10, -(FP \div 20), max_retries,
                                     use_antithetic, rng)} :
        /\ hwOut' = [op |-> "generate_scenarios", raised |-> out.raised,
                     value |-> out.value, n_bad |-> out.n_bad,
                     n_needed |-> out.n_needed, retried |-> out.retried,
                     good |-> out.good, warnings |-> out.warnings,
                     shocks |-> out.shocks,
                     path_shocks |-> out.path_shocks,
                     use_antithetic |-> use_antithetic,
                     max_retries |-> max_retries]
        /\ rng' = out.rng
        /\ nCalls' = nCalls + 1
        /\ hw' = hw
        /\ UNCHANGED NotHW

NextHW ==
    \/ \E n \in 0..MaxScen, T \in HwHorizons : HwConstruct(n, T)
    \/ \E mr \in HwRetries, anti \in BOOLEAN : HwGenerate(mr, anti)

SpecHW == InitHW /\ [][NextHW]_vars

\* The state after a generate_scenarios call that returned a dictionary
HwReturned == hwOut.op = "generate_scenarios" /\ hwOut.raised = "none"

\* The keys of the dictionary generate_scenarios returns
HwResultKeys == {"rt", "Rt", "deflators", "residuals"}

\* The continuous-rate limits of the default lim_high = 0.1, lim_low = -0.05
LimHighCont == Ln(FP + FP \div 10)
LimLowCont == Ln(FP - FP \div 20)

\* C2: whenever generate_scenarios returns fewer than n_scenarios paths, the
\* returned dictionary carries a record of the shortfall (something besides
\* the four arrays rt, Rt, deflators, residuals).
C2_ShortfallRecorded ==
    (HwReturned /\ Len(hwOut.value.Rt) < hw.n_scenarios)
        => DOMAIN hwOut.value # HwResultKeys

\* C3: every path generate_scenarios returns has R within
\* [log(1 + lim_low), log(1 + lim_high)] at every step.
C3_ReturnedWithinLimits ==
    HwReturned =>
        \A k \in 1..Len(hwOut.value.Rt) :
            \A j \in 1..Len(hwOut.value.Rt[k]) :
                /\ hwOut.value.Rt[k][j] <= LimHighCont
                /\ hwOut.value.Rt[k][j] >= LimLowCont

\* C4: a generate_scenarios call that enters the replacement loop makes
\* between 1 and max_attempts attempts, no attempt before the last one
\* yielded the needed number of acceptable paths, the last one did unless
\* it was attempt max_attempts, and the call returns instead of raising.
C4_ReplacementBounded ==
    (hwOut.op = "generate_scenarios" /\ hwOut.retried) =>
        /\ hwOut.raised = "none"
        /\ Len(hwOut.good) \in 1..max_attempts
        /\ \A i \in 1..(Len(hwOut.good) - 1) : hwOut.good[i] < hwOut.n_needed
        /\ \/ hwOut.good[Len(hwOut.good)] >= hwOut.n_needed
           \/ Len(hwOut.good) = max_attempts
        /\ ("could_not_generate" \in hwOut.warnings)
               <=> (hwOut.good[Len(hwOut.good)] < hwOut.n_needed)

\* The replacement loop ran out of attempts and the call still returned
C4_Witness ==
    /\ HwReturned /\ hwOut.retried
    /\ Len(hwOut.good) = max_attempts
    /\ hwOut.good[max_attempts] < hwOut.n_needed
    /\ \E k \in 1..Len(hwOut.value.Rt) : TRUE

\* Reachability of the other cases of the replacement loop
HwLateSuccess ==
    /\ HwReturned /\ hwOut.retried
    /\ Len(hwOut.good) \in 2..(max_attempts - 1)
    /\ hwOut.good[Len(hwOut.good)] >= hwOut.n_needed
HwFirstSuccess ==
    HwReturned /\ hwOut.retried /\ Len(hwOut.good) = 1
HwSilentShortfall ==
    /\ HwReturned /\ Len(hwOut.value.Rt) < hw.n_scenarios
    /\ hwOut.warnings = {}
HwNonAntitheticExhausted ==
    C4_Witness /\ ~hwOut.use_antithetic
HwDefaultsOutOfLimits ==
    /\ ~C3_ReturnedWithinLimits
    /\ hwOut.use_antithetic /\ hwOut.max_retries = 50



-----------------------------------------------------------------------------
(* ScenarioGenerator objects in one process: each is constructed once and
   asked to generate once, in any order, over numpy's process-wide stream *)

MaxN == 3           \* largest num_scenarios of a complete configuration
Slots == {1, 2}

\* The stream the process starts in (numpy seeds itself from the system)
OrchEntropy == {3, 7}

OrchSeeds == {None, Some(0), Some(1)}

Year == Dt(1, 1)
HalfYear == Dt(1, 2)

OrchConfigs ==
    {Config(Some(n), Some(3), Some(Year), Some(st)) :
         n \in 1..MaxN, st \in BOOLEAN}
    \cup {Config(Some(2), Some(1), Some(HalfYear), Some(TRUE)),
          Config(Some(2), Some(2), Some(Year), None),
          Config(Some(2), Some(CurveYears + 2), Some(Year), Some(TRUE)),
          Config(None, Some(3), Some(Year), Some(TRUE)),
          Config(Some(2), None, Some(Year), Some(FALSE)),
          Config(Some(2), Some(3), None, Some(TRUE)),
          Config(None, None, None, None)}

InitOrch ==
    /\ CalRest /\ HwRest /\ CorrRest /\ AssetRest
    /\ \E e \in OrchEntropy : rng = Seeded(e)
    /\ gens = [g \in Slots |-> Unbuilt]
    /\ calls = [g \in Slots |-> Idle]
    /\ nCalls = 0

NotOrch == <<cal, calOut, calHist, fpErr, hw, hwOut, crg, crgOut, asset, assetOut>>

\* gen = ScenarioGenerator(random_seed): after it, gen is the one object
\* constructed since the stream was last touched
ConstructGen(g, random_seed) ==
    /\ gens[g] = Unbuilt
    /\ gens' = [h \in Slots |->
                  IF h = g
                  THEN [self |-> NewScenarioGenerator(random_seed), fresh |-> TRUE]
                  ELSE IF gens[h] = Unbuilt \/ IsNone(random_seed) THEN gens[h]
                  ELSE [gens[h] EXCEPT !.fresh = FALSE]]
    /\ rng' = InitSeedsStream(random_seed, rng)
    /\ UNCHANGED <<calls, nCalls>>
    /\ UNCHANGED NotOrch

\* gen.generate(config), once per object
CallGenerate(g, config) ==
    /\ gens[g] # Unbuilt
    /\ calls[g].op = "none"
    /\ \E out \in {Generate(gens[g].self, config, rng)} :
        /\ calls' = [calls EXCEPT ![g] =
               [op |-> "generate", config |-> config, fresh |-> gens[g].fresh,
                raised |-> out.raised, field |-> out.field,
                scenarios |-> out.scenarios, deflators |-> out.deflators,
                diagnostics |-> out.diagnostics, drawn |-> out.drawn,
                paths |-> out.paths, stages |-> out.stages,
                before |-> rng, after |-> out.rng]]
        /\ rng' = out.rng
    /\ gens' = [h \in Slots |->
                  IF gens[h] = Unbuilt THEN gens[h]
                  ELSE [gens[h] EXCEPT !.fresh = FALSE]]
    /\ nCalls' = nCalls + 1
    /\ UNCHANGED NotOrch

Next ==
    \/ \E g \in Slots, random_seed \in OrchSeeds : ConstructGen(g, random_seed)
    \/ \E g \in Slots, config \in OrchConfigs : CallGenerate(g, config)

Spec == InitOrch /\ [][Next]_vars

Called(g) == calls[g].op = "generate"
Seeded_(g) == ~IsNone(gens[g].self.random_seed)
Returned_(g) == Called(g) /\ calls[g].raised = "none"
Stochastic(config) ==
    ~IsNone(config.use_stochastic) /\ Val(config.use_stochastic)

\* The calibrated curve, one point per step from 0 to the last maturity,
\* covers the steps the configuration asks for
CurveCovers(config) ==
    NSteps(ValidateConfig(config)) <= GridLen(CurveYears, Val(config.timestep))

\* A configuration generate accepts: no required field is absent and, in
\* stochastic mode, the calibrated curve is long enough
Accepted(config) ==
    /\ IsNone(config.num_scenarios) = FALSE
    /\ IsNone(config.time_horizon) = FALSE
    /\ IsNone(config.timestep) = FALSE
    /\ Stochastic(config) => CurveCovers(config)

Rows(config) == Val(config.num_scenarios) * NSteps(ValidateConfig(config))

\* C1: for every accepted configuration, in either mode and for odd and
\* even num_scenarios, generate returns a scenarios table of exactly
\* num_scenarios * n_steps rows
C1_RowCount ==
    \A g \in Slots :
        (Called(g) /\ Accepted(calls[g].config))
            => /\ calls[g].raised = "none"
               /\ Len(calls[g].scenarios) = Rows(calls[g].config)

\* Whenever generate does return, the table has num_scenarios * n_steps rows
RowCountWhenReturned ==
    \A g \in Slots :
        Returned_(g) => Len(calls[g].scenarios) = Rows(calls[g].config)

\* A generate call that was the first use of the stream after its seeded
\* object was constructed
FreshRun(g) == Called(g) /\ calls[g].fresh /\ Seeded_(g)

SameRun(g, h) ==
    /\ gens[g].self.random_seed = gens[h].self.random_seed
    /\ calls[g].config = calls[h].config

\* C5: two runs that each construct a fresh generator with the same seed
\* and call generate once with the same configuration return identical
\* scenarios tables and identical deflator tables (and fail alike)
C5_Deterministic ==
    \A g \in Slots : \A h \in Slots :
        (FreshRun(g) /\ FreshRun(h) /\ SameRun(g, h))
            => /\ calls[g].raised = calls[h].raised
               /\ calls[g].scenarios = calls[h].scenarios
               /\ calls[g].deflators = calls[h].deflators

\* Two fresh runs with one seed and one stochastic configuration, both
\* returning tables, the first having left the stream elsewhere
C5_Witness ==
    /\ FreshRun(1) /\ FreshRun(2) /\ SameRun(1, 2)
    /\ Stochastic(calls[1].config)
    /\ Returned_(1) /\ Returned_(2)
    /\ calls[1].scenarios # << >>
    /\ calls[1].after # calls[2].before

\* The same in simple mode
C5_WitnessSimple ==
    /\ FreshRun(1) /\ FreshRun(2) /\ SameRun(1, 2)
    /\ ~Stochastic(calls[1].config)
    /\ Returned_(1) /\ calls[1].scenarios # << >>

\* What the generator returns when it is constructed and run alone
RunAlone(g) ==
    Generate(gens[g].self, calls[g].config, Seeded(Val(gens[g].self.random_seed)))

SameTables(call, alone) ==
    /\ call.raised = alone.raised
    /\ call.scenarios = alone.scenarios
    /\ call.deflators = alone.deflators

\* C6: whatever the order in which two seeded generators are constructed
\* and run, each one's output equals the output it produces when it is
\* constructed and run alone with the same seed and configuration
C6_NoSharedStream ==
    \A g \in Slots :
        (Called(g) /\ Seeded_(g)) => SameTables(calls[g], RunAlone(g))

RequiredFields == <<"num_scenarios", "time_horizon", "timestep">>

Absent(config, i) ==
    IF i = 1 THEN IsNone(config.num_scenarios)
    ELSE IF i = 2 THEN IsNone(config.time_horizon)
    ELSE IsNone(config.timestep)

Untouched(call) ==
    call.drawn = 0 /\ call.paths = 0 /\ call.after = call.before

\* C10: with a required field absent generate raises ValueError naming the
\* first absent field; in stochastic mode it raises when the calibrated
\* curve is shorter than n_steps; in both cases no variate has been drawn,
\* no rate path generated and the stream is where it was
C10_ConfigErrorsFailFast ==
    \A g \in Slots :
        Called(g) =>
            /\ \A i \in 1..Len(RequiredFields) :
                   (Absent(calls[g].config, i)
                    /\ \A j \in 1..(i - 1) : ~Absent(calls[g].config, j))
                       => /\ calls[g].raised = "ValueError"
                          /\ calls[g].field = Some(RequiredFields[i])
                          /\ Untouched(calls[g])
            /\ ((\A i \in 1..Len(RequiredFields) : ~Absent(calls[g].config, i))
                    /\ Stochastic(calls[g].config)
                    /\ ~CurveCovers(calls[g].config))
                   => /\ calls[g].raised = "ValueError"
                      /\ Untouched(calls[g])

\* Both kinds of configuration error have been raised, one of them naming a
\* field that is not the first required one
C10_Witness ==
    /\ Called(1) /\ Called(2)
    /\ calls[1].field = Some("time_horizon")
    /\ calls[1].raised = "ValueError"
    /\ IsNone(calls[2].field) /\ calls[2].raised = "ValueError"
    /\ Stochastic(calls[2].config)
    /\ Val(calls[2].config.time_horizon) > CurveYears

-----------------------------------------------------------------------------
(* One CorrelatedRandomGenerator: constructed, then asked to generate and
   to reorder its assets *)

MaxCorrCalls == 2   \* generate and reorder_assets calls per behaviour
MaxRows == 3        \* most rows of a residual matrix, most n_scenarios

\* 2 x 2 matrices on the scale of FP, a 2 x 3 one, and None for the default
CorrDiagonals == {FP, 4 * FP, -FP}
CorrOffDiagonals == {0, FP \div 2, FP, 2 * FP}
CorrMatrices ==
    {None, Some(<<<<FP, 0, 0>>, <<0, FP, 0>>>>)}
    \cup {Some(<<<<a, b>>, <<c, FP>>>>) :
              a \in CorrDiagonals, b \in CorrOffDiagonals, c \in CorrOffDiagonals}
    \cup {Some(<<<<4 * FP, b>>, <<b, 4 * FP>>>>) : b \in CorrOffDiagonals}

CorrNames == {None, Some(<<"rates", "equity">>), Some(<<"rates">>)}

\* Residual matrices of S rows and T columns, in standard deviations
Residuals(S, T) == [k \in 1..S |-> [t \in 1..T |-> 2 * k - 3 * t]]
CorrResiduals ==
    {None} \cup {Some(Residuals(S, T)) : S \in 1..MaxRows, T \in 1..2}

CorrOrders == {<<0, 1>>, <<1, 0>>, <<0, 0>>, <<0>>, <<4, 3, 2, 1, 0>>}

CorrSeeds == {None, Some(1)}

\* The library's treatment of nan is a property of the build
InitCorr ==
    /\ crg = Unbuilt
    /\ \E lapack \in LapackOnNaN :
           crgOut = [op |-> "none", raised |-> "none", lapack |-> lapack]
    /\ rng \in {Seeded(s) : s \in 0..1}
    /\ nCalls = 0
    /\ CalRest /\ HwRest /\ AssetRest
    /\ gens = << >> /\ calls = << >>

NotCorr == <<cal, calOut, calHist, fpErr, hw, hwOut, gens, calls, asset, assetOut>>

CorrConstruct(correlation_matrix, asset_names, n_scenarios, use_antithetic, random_seed) ==
    /\ crg = Unbuilt /\ crgOut.op = "none"
    /\ \E out \in {CorrelatedRandomGeneratorInit(
                        correlation_matrix, asset_names, n_scenarios, 2,
                        use_antithetic, random_seed, crgOut.lapack, rng)} :
        /\ crg' = out.object
        /\ crgOut' = [op |-> "__init__", raised |-> out.raised,
                      lapack |-> crgOut.lapack, given |-> correlation_matrix,
                      names |-> asset_names,
                      symmetrized |-> out.symmetrized,
                      normalized |-> out.normalized,
                      attempts |-> out.attempts,
                      regularized |-> out.regularized]
        /\ rng' = out.rng
    /\ UNCHANGED nCalls
    /\ UNCHANGED NotCorr

\* generate(rate_residuals); None: generate()
CorrCallGenerate(rate_residuals) ==
    /\ crg # Unbuilt
    /\ ~crg.nonfinite
    /\ nCalls < MaxCorrCalls
    /\ \E out \in {IF IsNone(rate_residuals) THEN CorrGenerateAll(crg, rng)
                    ELSE CorrGenerate(crg, Val(rate_residuals), rng)} :
        /\ crgOut' = [op |-> "generate", raised |-> out.raised,
                      lapack |-> crgOut.lapack,
                      rate_residuals |-> rate_residuals,
                      shocks |-> out.shocks, independent |-> out.independent,
                      drawn |-> out.drawn]
        /\ rng' = out.rng
    /\ crg' = IF IsNone(rate_residuals) THEN crg
              ELSE [crg EXCEPT !.n_steps = Len(Val(rate_residuals)[1])]
    /\ nCalls' = nCalls + 1
    /\ UNCHANGED NotCorr

\* reorder_assets(new_order); the outcome keeps the generator as it was
\* before the call
CorrReorder(new_order) ==
    /\ crg # Unbuilt
    /\ nCalls < MaxCorrCalls
    /\ \E out \in {ReorderAssets(crg, new_order, crgOut.lapack)} :
        /\ crg' = out.object
        /\ crgOut' = [op |-> "reorder_assets", raised |-> out.raised,
                      lapack |-> crgOut.lapack, new_order |-> new_order,
                      before |-> crg]
    /\ nCalls' = nCalls + 1
    /\ UNCHANGED rng
    /\ UNCHANGED NotCorr

NextCorr ==
    \/ \E correlation_matrix \in CorrMatrices, asset_names \in CorrNames,
          n_scenarios \in 2..MaxRows, use_antithetic \in BOOLEAN,
          random_seed \in CorrSeeds :
           CorrConstruct(correlation_matrix, asset_names, n_scenarios,
                         use_antithetic, random_seed)
    \/ \E rate_residuals \in CorrResiduals : CorrCallGenerate(rate_residuals)
    \/ \E new_order \in CorrOrders : CorrReorder(new_order)

SpecCorr == InitCorr /\ [][NextCorr]_vars

CorrConstructed == crgOut.op = "__init__" /\ crgOut.raised = "none"
CorrFailed == crgOut.op = "__init__" /\ crgOut.raised # "none"

\* The constructor was given a square matrix and as many names as it has rows
GivenSquare ==
    /\ crgOut.op = "__init__"
    /\ ~IsNone(crgOut.given) /\ IsSquare(Val(crgOut.given))
    /\ ~IsNone(crgOut.names)
    /\ Len(Val(crgOut.names)) = Len(Val(crgOut.given))

\* C11: the constructor fails on a square correlation matrix only after
\* the repairs are exhausted: the Cholesky factorization was attempted,
\* failed, was retried once on the regularized matrix and failed again
C11_FailsOnlyAfterRepair ==
    (CorrFailed /\ GivenSquare)
        => crgOut.attempts = 2 /\ crgOut.regularized

\* A singular matrix is factored at the second attempt, after regularization
CorrRegularizedOnce ==
    CorrConstructed /\ GivenSquare /\ crgOut.attempts = 2 /\ ~crg.nonfinite

\* An indefinite matrix is rejected before any factorization is attempted
CorrRejectedUnrepaired ==
    CorrFailed /\ GivenSquare /\ crgOut.raised = "ValueError"
    /\ crgOut.attempts = 0

\* The stored matrix is a finite, square, symmetric, unit-diagonal matrix
\* of the size of the list of names
WellFormed(g) ==
    /\ ~g.nonfinite
    /\ IsSquare(g.correlation_matrix)
    /\ IsSymmetric(g.correlation_matrix)
    /\ HasUnitDiagonal(g.correlation_matrix)
    /\ Len(g.asset_names) = Len(g.correlation_matrix)

\* C12: a CorrelatedRandomGenerator either fails to construct or holds,
\* after construction and after any generate and reorder_assets calls, a
\* square, symmetric, unit-diagonal correlation matrix whose size is the
\* number of asset names
C12_MatrixWellFormed == crg # Unbuilt => WellFormed(crg)

\* The same for the objects whose normalization stayed finite
WellFormedWhenFinite == (crg # Unbuilt /\ ~crg.nonfinite) => WellFormed(crg)

\* A non-square matrix and a wrong number of names are ValueErrors
RejectsShape ==
    (crgOut.op = "__init__" /\ ~IsNone(crgOut.given)
     /\ (~IsSquare(Val(crgOut.given))
         \/ (~IsNone(crgOut.names)
             /\ Len(Val(crgOut.names)) # Len(Val(crgOut.given)))))
        => crgOut.raised \in {"ValueError", "LinAlgError"} /\ crg = Unbuilt

\* An asymmetric matrix with a non-unit diagonal was repaired and reordered
CorrRepairedThenReordered ==
    /\ crg # Unbuilt /\ WellFormed(crg)
    /\ crgOut.op = "reorder_assets" /\ crgOut.raised = "none"
    /\ crgOut.new_order = <<1, 0>>
    /\ crg.correlation_matrix[1][2] \notin {0, FP}
    /\ crg.asset_names = <<"equity", "rates">>

GeneratedAround == crgOut.op = "generate" /\ ~IsNone(crgOut.rate_residuals)

\* A cube of n_assets factors, S scenarios and T steps
HasShape(cube, n_assets, S, T) ==
    /\ Len(cube) = n_assets
    /\ \A a \in 1..n_assets :
           /\ Len(cube[a]) = S
           /\ \A k \in 1..S : Len(cube[a][k]) = T

\* The residuals on the scale of the cube
Scaled(rate_residuals) ==
    [k \in 1..Len(rate_residuals) |->
        [t \in 1..Len(rate_residuals[k]) |-> FP * rate_residuals[k][t]]]

\* C13: for residuals of S rows and T columns, S odd or even, antithetic
\* or not, generate(rate_residuals) returns a cube of shape
\* (n_assets, S, T) whose first row is the residuals themselves
C13_ResidualsSubstituted ==
    GeneratedAround
        => /\ crgOut.raised = "none"
           /\ HasShape(crgOut.shocks, crg.n_assets,
                       Len(Val(crgOut.rate_residuals)),
                       Len(Val(crgOut.rate_residuals)[1]))
           /\ crgOut.shocks[1] = Scaled(Val(crgOut.rate_residuals))

\* Whenever generate(rate_residuals) returns, the cube is as described
SubstitutedWhenReturned ==
    (GeneratedAround /\ crgOut.raised = "none")
        => /\ HasShape(crgOut.shocks, crg.n_assets,
                       Len(Val(crgOut.rate_residuals)),
                       Len(Val(crgOut.rate_residuals)[1]))
           /\ crgOut.shocks[1] = Scaled(Val(crgOut.rate_residuals))

\* It raises exactly for an odd number of rows with antithetic variates
RaisesOnOddAntithetic ==
    GeneratedAround
        => ((crgOut.raised = "ValueError")
               <=> (crg.use_antithetic
                    /\ Len(Val(crgOut.rate_residuals)) % 2 = 1))

-----------------------------------------------------------------------------
(* One CorrelatedRandomGenerator and one HullWhiteModel drawing from the
   same numpy stream *)

ShockMatrices == {None, Some(<<<<FP, FP \div 2>>, <<FP \div 2, FP>>>>)}
ShockHorizons == {2, 3}

\* The matrices of ShockMatrices are finite: the library never meets a nan
InitShocks ==
    /\ crg = Unbuilt
    /\ crgOut = [op |-> "none", raised |-> "none", lapack |-> "nan"]
    /\ hw = Unbuilt
    /\ hwOut = Idle
    /\ rng \in {Seeded(s) : s \in 0..1}
    /\ nCalls = 0
    /\ CalRest /\ AssetRest
    /\ gens = << >> /\ calls = << >>

NextShocks ==
    \/ \E correlation_matrix \in ShockMatrices, n_scenarios \in 2..MaxRows,
          use_antithetic \in BOOLEAN :
           CorrConstruct(correlation_matrix,
                         IF IsNone(correlation_matrix) THEN None
                         ELSE Some(<<"rates", "equity">>),
                         n_scenarios, use_antithetic, None)
    \/ \E rate_residuals \in CorrResiduals : CorrCallGenerate(rate_residuals)
    \/ \E n \in 2..MaxScen, T \in ShockHorizons : HwConstruct(n, T)
    \/ \E use_antithetic \in BOOLEAN : HwGenerate(100, use_antithetic)

SpecShocks == InitShocks /\ [][NextShocks]_vars

\* Row k of a vector or matrix of n rows is the negation of row k + n / 2
Paired(rows) ==
    /\ Len(rows) % 2 = 0
    /\ \A k \in 1..(Len(rows) \div 2) :
           \A t \in DOMAIN rows[k] :
               rows[k][t] = -rows[k + Len(rows) \div 2][t]

\* C14: with antithetic variates, every independently drawn shock of
\* scenario k < n/2 is the exact negation of the shock of scenario k + n/2
\* of the same factor and step, before correlation is applied: in the
\* generator's independent cube and in every step's draw of the short-rate
\* simulator
C14_AntitheticPairs ==
    /\ (crgOut.op = "generate" /\ crg.use_antithetic)
           => \A a \in DOMAIN crgOut.independent : Paired(crgOut.independent[a])
    /\ (HwReturned /\ hwOut.use_antithetic)
           => \A i \in DOMAIN hwOut.shocks :
                  Paired([k \in DOMAIN hwOut.shocks[i] |-> <<hwOut.shocks[i][k]>>])

\* Both have drawn pairs of shocks that are not zero
C14_Witness ==
    /\ crgOut.op = "generate" /\ crg.use_antithetic
    /\ crgOut.raised = "none"
    /\ \E a \in DOMAIN crgOut.independent :
           /\ Len(crgOut.independent[a]) >= 2
           /\ \E t \in DOMAIN crgOut.independent[a][1] :
                  crgOut.independent[a][1][t] # 0
    /\ HwReturned /\ hwOut.use_antithetic
    /\ \E i \in DOMAIN hwOut.shocks :
           /\ Len(hwOut.shocks[i]) >= 4
           /\ hwOut.shocks[i][1] # 0
           /\ hwOut.shocks[i][2] # hwOut.shocks[i][1]

-----------------------------------------------------------------------------
(* The Cholesky factor of the stored matrix *)

\* L @ L.T on the scale of FP
TimesTranspose(factor) ==
    [i \in 1..Len(factor) |->
        [j \in 1..Len(factor) |->
            SumFromTo([b \in 1..Len(factor) |-> factor[i][b] * factor[j][b]],
                      1, Len(factor))
                \div FP]]

\* The rounding of the fixed-point factorization, in units of 1 / FP
Rounding == 2

Close(A, B) ==
    /\ Len(A) = Len(B)
    /\ \A i \in 1..Len(A) :
           /\ Len(A[i]) = Len(B[i])
           /\ \A j \in 1..Len(A[i]) : Abs(A[i][j] - B[i][j]) <= Rounding

LowerTriangular(factor) ==
    \A i \in 1..Len(factor) : \A j \in (i + 1)..Len(factor) : factor[i][j] = 0

\* The independent cube the last generate call correlated
IndependentCube ==
    IF IsNone(crgOut.rate_residuals) THEN crgOut.independent
    ELSE <<Val(crgOut.rate_residuals)>> \o crgOut.independent

\* cube[:, :, t] = L @ independent[:, :, t]
FactorApplied(factor, independent, cube) ==
    /\ Len(cube) = Len(independent)
    /\ \A a \in 1..Len(cube) :
           /\ Len(cube[a]) = Len(independent[a])
           /\ \A k \in 1..Len(cube[a]) :
                  /\ Len(cube[a][k]) = Len(independent[a][k])
                  /\ \A t \in 1..Len(cube[a][k]) :
                         cube[a][k][t] =
                             SumFromTo([b \in 1..Len(factor) |->
                                           factor[a][b] * independent[b][k][t]],
                                       1, Len(factor))

\* C15: for every matrix the constructor accepts, the stored
\* lower-triangular factor L satisfies L @ L.T = the stored matrix within
\* tolerance, after construction and after reorder_assets, and each step of
\* a generated cube is L applied to that step's independent shocks
C15_FactorReproducesMatrix ==
    (crg # Unbuilt /\ ~crg.nonfinite)
        => /\ LowerTriangular(crg.cholesky_matrix)
           /\ Close(TimesTranspose(crg.cholesky_matrix), crg.correlation_matrix)
           /\ (crgOut.op = "generate" /\ crgOut.raised = "none")
                  => FactorApplied(crg.cholesky_matrix, IndependentCube,
                                   crgOut.shocks)

\* The default matrix reordered to another matrix, and a cube generated
\* from the reordered factor
C15_Witness ==
    /\ crg # Unbuilt /\ ~crg.nonfinite
    /\ crg.n_assets = 5
    /\ crg.correlation_matrix # DEFAULT_CORRELATION_MATRIX
    /\ crgOut.op = "generate" /\ crgOut.raised = "none"
    /\ \E k \in DOMAIN crgOut.shocks[5] :
           \E t \in DOMAIN crgOut.shocks[5][k] : crgOut.shocks[5][k][t] # 0

-----------------------------------------------------------------------------
(* The deflators generate returns *)

\* C17: the deflators are strictly positive for every scenario and step in
\* both modes, and in stochastic mode, where they are the short-rate
\* simulator's, the deflator at the first step never exceeds 1
C17_DeflatorsPositive ==
    \A g \in DOMAIN calls :
        Returned_(g)
            => /\ \A k \in DOMAIN calls[g].deflators :
                      \A j \in DOMAIN calls[g].deflators[k] :
                          calls[g].deflators[k][j] > 0
               /\ Stochastic(calls[g].config)
                      => \A k \in DOMAIN calls[g].deflators :
                             calls[g].deflators[k][1] <= FP

\* A simple run and a stochastic run have both returned deflators of
\* several scenarios and steps, the stochastic one a deflator below 1
C17_Witness ==
    \E g, h \in DOMAIN calls :
        /\ Returned_(g) /\ ~Stochastic(calls[g].config)
        /\ Len(calls[g].deflators) >= 2 /\ Len(calls[g].deflators[1]) >= 2
        /\ Returned_(h) /\ Stochastic(calls[h].config)
        /\ Len(calls[h].deflators) >= 2 /\ Len(calls[h].deflators[1]) >= 2
        /\ \E k \in DOMAIN calls[h].deflators :
               calls[h].deflators[k][2] < FP

\* The same of the dictionary generate_scenarios returns
HwDeflatorsPositive ==
    HwReturned
        => \A k \in DOMAIN hwOut.value.deflators :
               /\ hwOut.value.deflators[k][1] = FP
               /\ \A j \in DOMAIN hwOut.value.deflators[k] :
                      hwOut.value.deflators[k][j] > 0

-----------------------------------------------------------------------------
(* One return model, BlackScholesEquity or RealEstateModel: constructed,
   then asked for returns *)

MaxAssetCalls == 2  \* generate_returns calls per behaviour

\* Short-rate paths of S scenarios and T steps, in units of 1 / FP
ShortRates(S, T) == [k \in 1..S |-> [t \in 1..T |-> 200 + 50 * k - 30 * t]]
AssetShortRates == {ShortRates(S, T) : S \in 1..2, T \in 1..3}

\* Shocks of the shape of short_rates, or None for shocks drawn internally
SuppliedShocks(short_rates, sign) ==
    [k \in DOMAIN short_rates |->
        [t \in DOMAIN short_rates[k] |-> sign * FP * (k - t)]]

AssetCurves == {<<200>>, <<200, 250, 300>>}
AssetYields == {-100, 0, 300}
AssetAdjustments == {-100, 0, 200}
AssetCorrelations == {0, FP \div 2, 2 * FP}

InitAssets ==
    /\ asset = Unbuilt
    /\ assetOut = Idle
    /\ rng \in {Seeded(s) : s \in 0..2}
    /\ nCalls = 0
    /\ CalRest /\ HwRest /\ CorrRest
    /\ gens = << >> /\ calls = << >>

NotAssets == <<cal, calOut, calHist, fpErr, hw, hwOut, gens, calls, crg, crgOut>>

\* BlackScholesEquity(sigma, dividend_yield, correlation_with_rates, dt=dt,
\* n_scenarios=2, T=2)
EquityConstruct(sigma, dividend_yield, correlation_with_rates, dt) ==
    /\ asset = Unbuilt
    /\ \E e \in {[NewBlackScholesEquity(sigma, dividend_yield, dt, 2, 2)
                    EXCEPT !.correlation_with_rates = correlation_with_rates]} :
        IF EquityInvalid(e)
        THEN /\ assetOut' = Raised("__init__", "ValueError")
             /\ asset' = asset
        ELSE /\ assetOut' = Returned("__init__", << >>)
             /\ asset' = [kind |-> "equity", self |-> e]
    /\ UNCHANGED <<rng, nCalls>>
    /\ UNCHANGED NotAssets

\* RealEstateModel(a, sigma=0.12, rental_yield, inflation_adjustment, dt,
\* n_scenarios=2, T=2)
RealEstateConstruct(a, rental_yield, inflation_adjustment, dt) ==
    /\ asset = Unbuilt
    /\ \E re \in {NewRealEstateModel(a, real_estate_volatility, rental_yield,
                                      inflation_adjustment, dt, 2, 2)} :
        IF RealEstateInvalid(re)
        THEN /\ assetOut' = Raised("__init__", "ValueError")
             /\ asset' = asset
        ELSE /\ assetOut' = Returned("__init__", << >>)
             /\ asset' = [kind |-> "real_estate", self |-> re]
    /\ UNCHANGED <<rng, nCalls>>
    /\ UNCHANGED NotAssets

\* BlackScholesEquity.generate_returns(short_rates, equity_shocks,
\* rate_shocks).  The outcome keeps the arguments and the random state the
\* call started in.
EquityCallGenerate(short_rates, equity_shocks, rate_shocks) ==
    /\ asset # Unbuilt
    /\ asset.kind = "equity"
    /\ nCalls < MaxAssetCalls
    /\ \E out \in {EquityGenerate(asset.self, short_rates, equity_shocks,
                                   rate_shocks, rng)} :
        /\ assetOut' = [op |-> "generate_returns", raised |-> "none",
                        value |-> out.value, short_rates |-> short_rates,
                        supplied |-> ~IsNone(equity_shocks),
                        drawn |-> out.drawn,
                        equity_shocks |-> equity_shocks,
                        rate_shocks |-> rate_shocks, before |-> rng]
        /\ rng' = out.rng
    /\ nCalls' = nCalls + 1
    /\ asset' = asset
    /\ UNCHANGED NotAssets

\* RealEstateModel.generate_returns(short_rates, f0t, re_price_shocks,
\* re_rental_shocks).  The outcome keeps the arguments and the random state
\* the call started in.
RealEstateCallGenerate(short_rates, f0t, re_price_shocks, re_rental_shocks) ==
    /\ asset # Unbuilt
    /\ asset.kind = "real_estate"
    /\ nCalls < MaxAssetCalls
    /\ \E out \in {RealEstateGenerate(asset.self, short_rates, f0t,
                                       re_price_shocks, re_rental_shocks, rng)} :
        /\ assetOut' = [op |-> "generate_returns", raised |-> "none",
                        value |-> out.value, short_rates |-> short_rates,
                        supplied |-> ~IsNone(re_price_shocks),
                        drawn |-> out.drawn, f0t |-> f0t,
                        re_price_shocks |-> re_price_shocks,
                        re_rental_shocks |-> re_rental_shocks,
                        before |-> rng]
        /\ rng' = out.rng
    /\ nCalls' = nCalls + 1
    /\ asset' = asset
    /\ UNCHANGED NotAssets

NextAssets ==
    \/ \E sigma \in {0, equity_volatility}, dividend_yield \in AssetYields,
          correlation_with_rates \in AssetCorrelations, dt \in {Year, HalfYear} :
           EquityConstruct(sigma, dividend_yield, correlation_with_rates, dt)
    \/ \E a \in {0, re_mean_reversion}, rental_yield \in AssetYields,
          inflation_adjustment \in AssetAdjustments, dt \in {Year, HalfYear} :
           RealEstateConstruct(a, rental_yield, inflation_adjustment, dt)
    \/ \E short_rates \in AssetShortRates :
           \E equity_shocks \in {None, Some(SuppliedShocks(short_rates, 1))},
              rate_shocks \in {None, Some(SuppliedShocks(short_rates, -1))} :
               EquityCallGenerate(short_rates, equity_shocks, rate_shocks)
    \/ \E short_rates \in AssetShortRates, f0t \in AssetCurves :
           \E re_price_shocks \in {None, Some(SuppliedShocks(short_rates, 1))},
              re_rental_shocks \in {None, Some(SuppliedShocks(short_rates, -1))} :
               RealEstateCallGenerate(short_rates, f0t, re_price_shocks,
                                      re_rental_shocks)

SpecAssets == InitAssets /\ [][NextAssets]_vars

AssetReturned(kind) ==
    /\ asset # Unbuilt /\ asset.kind = kind
    /\ assetOut.op = "generate_returns"

\* total = price + part at every scenario and step
Decomposed(total, price, part) ==
    /\ DOMAIN total = DOMAIN price /\ DOMAIN total = DOMAIN part
    /\ \A k \in DOMAIN total :
           /\ DOMAIN total[k] = DOMAIN price[k]
           /\ DOMAIN total[k] = DOMAIN part[k]
           /\ \A t \in DOMAIN total[k] :
                  total[k][t] = price[k][t] + part[k][t]

\* C18: both return models decompose the total return additively at
\* every scenario and step, the shocks supplied or drawn: for equity
\* total = price + dividend, with the dividend 0 at step 0 and the same
\* constant at every later step; for real estate total = price + rental
C18_TotalDecomposes ==
    /\ AssetReturned("equity")
           => /\ Decomposed(assetOut.value.total_returns,
                            assetOut.value.price_returns,
                            assetOut.value.dividend_returns)
              /\ \A k \in DOMAIN assetOut.value.dividend_returns :
                     \A t \in DOMAIN assetOut.value.dividend_returns[k] :
                         assetOut.value.dividend_returns[k][t] =
                             IF t = 1 THEN 0
                             ELSE TimesDt(Ln(FP + asset.self.dividend_yield),
                                          asset.self.dt)
    /\ AssetReturned("real_estate")
           => Decomposed(assetOut.value.total_returns,
                         assetOut.value.price_returns,
                         assetOut.value.rental_returns)

\* Returns of several scenarios and steps from shocks drawn internally,
\* with a dividend that is not zero
C18_Witness ==
    /\ AssetReturned("equity")
    /\ ~assetOut.supplied /\ assetOut.drawn > 0
    /\ Len(assetOut.value.total_returns) = 2
    /\ Len(assetOut.value.total_returns[1]) = 3
    /\ assetOut.value.dividend_returns[2][3] > 0
    /\ assetOut.value.price_returns[2][3] # 0

C18_WitnessRealEstate ==
    /\ AssetReturned("real_estate")
    /\ Len(assetOut.value.total_returns) = 2
    /\ Len(assetOut.value.total_returns[1]) = 3
    /\ assetOut.value.rental_returns[2][3] > 0
    /\ assetOut.value.price_returns[2][3] # 0

\* The rental return is the same in every scenario
SameInEveryScenario(rental) ==
    \A k \in DOMAIN rental : rental[k] = rental[1]

NeverDecreases(row) ==
    \A t \in 1..(Len(row) - 1) : row[t] <= row[t + 1]

StrictlyIncreases(row) ==
    \A t \in 1..(Len(row) - 1) : row[t] < row[t + 1]

\* C19: the rental return is the same in every scenario; for every
\* parameter set the RealEstateModel constructor accepts it never decreases
\* from one step to the next, and it is strictly increasing whenever
\* inflation_adjustment > 0
C19_RentalMonotone ==
    AssetReturned("real_estate")
        => /\ SameInEveryScenario(assetOut.value.rental_returns)
           /\ \A k \in DOMAIN assetOut.value.rental_returns :
                  /\ NeverDecreases(assetOut.value.rental_returns[k])
                  /\ asset.self.inflation_adjustment > 0
                         => StrictlyIncreases(assetOut.value.rental_returns[k])

\* The same for the models whose inflation_adjustment is not negative
RentalMonotoneWhenIndexedUp ==
    (AssetReturned("real_estate") /\ asset.self.inflation_adjustment >= 0)
        => /\ SameInEveryScenario(assetOut.value.rental_returns)
           /\ \A k \in DOMAIN assetOut.value.rental_returns :
                  /\ NeverDecreases(assetOut.value.rental_returns[k])
                  /\ asset.self.inflation_adjustment > 0
                         => StrictlyIncreases(assetOut.value.rental_returns[k])

\* The rental return depends on the model and the shape alone
RentalIgnoresShocks ==
    AssetReturned("real_estate")
        => assetOut.value.rental_returns =
               GenerateRentalReturns(asset.self, Len(assetOut.short_rates),
                                     Len(assetOut.short_rates[1]))

-----------------------------------------------------------------------------
(* The layout of the tables generate returns *)

\* Row t of scenario k: scenario_id is the number k of scenario_000k
RowAt(g, n_steps, k, t) == calls[g].scenarios[(k - 1) * n_steps + t]

\* C20: in the scenarios table of either mode each of the ids
\* scenario_0001 ... scenario_N occurs in exactly n_steps consecutive rows
\* whose time_period values are timestep * 1, ..., timestep * n_steps in
\* that order, and the deflator table has one row per scenario and one
\* column per step
C20_OneRowPerPeriod ==
    \A g \in DOMAIN calls :
        Returned_(g)
            => LET N == Val(calls[g].config.num_scenarios)
                   n_steps == NSteps(ValidateConfig(calls[g].config))
               IN  /\ Len(calls[g].scenarios) = N * n_steps
                   /\ \A k \in 1..N :
                          \A t \in 1..n_steps :
                              /\ RowAt(g, n_steps, k, t).scenario_id = k
                              /\ RowAt(g, n_steps, k, t).time_period =
                                     TimesDt(t * FP, Val(calls[g].config.timestep))
                   /\ Len(calls[g].deflators) = N
                   /\ \A k \in 1..N : Len(calls[g].deflators[k]) = n_steps

\* Tables of several scenarios and steps, returned in each mode, one of
\* them with half-year steps
C20_Witness ==
    \E g, h \in DOMAIN calls :
        /\ Returned_(g) /\ ~Stochastic(calls[g].config)
        /\ Val(calls[g].config.num_scenarios) >= 2
        /\ Len(calls[g].scenarios) >= 2 * Val(calls[g].config.num_scenarios)
        /\ Returned_(h) /\ Stochastic(calls[h].config)
        /\ Val(calls[h].config.num_scenarios) >= 2
        /\ Len(calls[h].scenarios) >= 2 * Val(calls[h].config.num_scenarios)
        /\ \E f \in {g, h} : Val(calls[f].config.timestep) = HalfYear

-----------------------------------------------------------------------------
(* The martingale test of the diagnostics *)

\* |mean over the scenarios of the deflator at step t - 1.0|
MeanDeflatorDeviation(deflators, t) ==
    Abs(QuotS(SumFromTo([k \in 1..Len(deflators) |-> deflators[k][t]],
                        1, Len(deflators)), Len(deflators)) - FP)

HasMartingaleTest(g) == "martingale_test" \in DOMAIN calls[g].diagnostics

\* C21: the diagnostics contain a martingale test exactly in stochastic
\* mode; it passes if and only if the largest over the steps of
\* |mean deflator - 1.0| is strictly below the tolerance 0.05, and the
\* reported largest deviation, mean deviation and tolerance are those values
C21_MartingaleTest ==
    \A g \in DOMAIN calls :
        Returned_(g)
            => /\ HasMartingaleTest(g) <=> Stochastic(calls[g].config)
               /\ HasMartingaleTest(g)
                      => LET test == calls[g].diagnostics.martingale_test
                             deflators == calls[g].deflators
                             steps == DOMAIN deflators[1]
                         IN  /\ test.tolerance = FP \div 20
                             /\ test.passes
                                    <=> \A t \in steps :
                                            MeanDeflatorDeviation(deflators, t)
                                                < FP \div 20
                             /\ \A t \in steps :
                                    MeanDeflatorDeviation(deflators, t)
                                        <= test.max_deviation
                             /\ \E t \in steps :
                                    MeanDeflatorDeviation(deflators, t)
                                        = test.max_deviation
                             /\ test.mean_deviation =
                                    QuotS(SumFromTo(
                                              [t \in steps |->
                                                  MeanDeflatorDeviation(deflators, t)],
                                              1, Len(deflators[1])),
                                          Len(deflators[1]))

\* A stochastic run whose test passes, and a simple run
C21_Witness ==
    \E g, h \in DOMAIN calls :
        /\ Returned_(g) /\ HasMartingaleTest(g)
        /\ calls[g].diagnostics.martingale_test.passes
        /\ calls[g].diagnostics.martingale_test.max_deviation > 0
        /\ Returned_(h) /\ ~Stochastic(calls[h].config)

\* A stochastic run whose test fails although its mean deviation is below
\* the tolerance
C21_WitnessFails ==
    \E g \in DOMAIN calls :
        /\ Returned_(g) /\ HasMartingaleTest(g)
        /\ ~calls[g].diagnostics.martingale_test.passes
        /\ calls[g].diagnostics.martingale_test.mean_deviation < FP \div 20

-----------------------------------------------------------------------------
(* The stages of a stochastic run *)

Pipeline ==
    <<"calibrate", "short_rate", "correlated_shocks", "equity", "real_estate",
      "assemble">>

StageNames(g) == [i \in DOMAIN calls[g].stages |-> calls[g].stages[i].stage]

\* What stage number i of run g produced
Produced(g, i) == calls[g].stages[i].output

\* The factor row of the cube the shock generator produced for one name
FactorRow(g, asset_name) ==
    Produced(g, 3).shocks[AssetIndex(Produced(g, 3).asset_names, asset_name)]

\* Each finished stage produced what its code computes from the outputs of
\* the stages before it
ConsumesEarlier(g, config) ==
    /\ Len(calls[g].stages) >= 2
           => /\ \A k \in DOMAIN Produced(g, 2).rt :
                     Produced(g, 2).rt[k][1] = Produced(g, 1).f0t[1]
              /\ Produced(g, 2).residuals =
                     ExtractResiduals(
                         NewHullWhite(mean_reversion_speed, hw_volatility,
                                      Produced(g, 1).f0t, Produced(g, 1).P0t,
                                      config.timestep, config.num_scenarios,
                                      config.time_horizon),
                         Produced(g, 2).rt)
    /\ Len(calls[g].stages) >= 3
           => Produced(g, 3).shocks[1] = Scaled(Produced(g, 2).residuals)
    /\ Len(calls[g].stages) >= 4
           => Produced(g, 4) =
                  EquityGenerateReturns(
                      NewBlackScholesEquity(equity_volatility,
                                            equity_dividend_yield,
                                            config.timestep, config.num_scenarios,
                                            config.time_horizon),
                      Produced(g, 2).Rt, FactorRow(g, "equity"))
    /\ Len(calls[g].stages) >= 5
           => Produced(g, 5) =
                  RealEstateGenerateReturns(
                      NewRealEstateModel(re_mean_reversion, real_estate_volatility,
                                         re_rental_yield, re_inflation_adj,
                                         config.timestep, config.num_scenarios,
                                         config.time_horizon),
                      Produced(g, 2).Rt, Produced(g, 1).f0t,
                      FactorRow(g, "real_estate"), FactorRow(g, "inflation"))

\* C22: in stochastic mode the stages run in the order calibrate, short
\* rate, correlated shocks, equity, real estate, assemble, each after the
\* one before it has finished and from the outputs of earlier stages (the
\* shock generator takes the simulator's residuals; equity and real estate
\* take the rate paths and their own factor rows of the cube); in simple
\* mode no calibration, short-rate simulation or factorization is performed
C22_StagesInOrder ==
    \A g \in DOMAIN calls :
        Called(g)
            => /\ StageNames(g) = SubSeq(Pipeline, 1, Len(calls[g].stages))
               /\ (Returned_(g) /\ Stochastic(calls[g].config))
                      => Len(calls[g].stages) = Len(Pipeline)
               /\ ~Stochastic(calls[g].config) => calls[g].stages = << >>
               /\ calls[g].stages # << >>
                      => ConsumesEarlier(g, ValidateConfig(calls[g].config))

\* A stochastic run that went through every stage, with factor rows that
\* differ, and one that stopped after an earlier stage
C22_Witness ==
    \E f, g \in DOMAIN calls :
        /\ Returned_(f) /\ Len(calls[f].stages) = Len(Pipeline)
        /\ FactorRow(f, "equity") # FactorRow(f, "real_estate")
        /\ Called(g) /\ calls[g].raised # "none"
        /\ Len(calls[g].stages) \in 1..(Len(Pipeline) - 1)

\* A stochastic run that went through every stage, and a simple run
C22_WitnessSimple ==
    \E f, h \in DOMAIN calls :
        /\ Returned_(f) /\ Len(calls[f].stages) = Len(Pipeline)
        /\ Returned_(h) /\ ~Stochastic(calls[h].config)
        /\ Len(calls[h].scenarios) > 0


-----------------------------------------------------------------------------
(* Tail smoothing of the forward curve *)

\* calibrate(smoothing_start, smoothing_window) with s = <<smoothing_start,
\* smoothing_window>> has left its curves on the calibrator
SmoothedWith(s) ==
    /\ ~IsNone(cal.f0t_interp) /\ ~IsNone(cal.f0t)
    /\ ~SmoothRaises(Len(Val(cal.f0t_interp)), s[1], s[2], cal.dt)
    /\ Val(cal.f0t) = SmoothForwardRates(Val(cal.f0t_interp), s[1], s[2],
                                         cal.dt)

\* The curve has no room for a window after the start index
TooShort(n, s) == DivDt(s[1], cal.dt) + DivDt(s[2], cal.dt) >= n

\* Indices (0-based, as in the source) the rolling average is written to
SmoothedRange(n, s) ==
    DivDt(s[1], cal.dt)..(n - DivDt(s[2], cal.dt) - 1)

\* The value _smooth_forward_rates writes at index i of the smoothed range
RollingAverage(f, i, s) == MeanFromTo(f, i + 1, i + DivDt(s[2], cal.dt) + 1)

\* C23: in the smoothed forward curve the values before the smoothing start
\* index are those of the interpolated curve, every index of the smoothed
\* range holds the rolling average of its window, and every index beyond
\* the smoothed range holds the last rolling average; a curve too short for
\* start plus window is returned unchanged.
C23_TailSmoothing ==
    \A s \in SmoothInputs :
        SmoothedWith(s) =>
            LET f == Val(cal.f0t_interp)
                g == Val(cal.f0t)
                n == Len(f)
                last == n - DivDt(s[2], cal.dt) - 1
            IN  IF TooShort(n, s) THEN g = f
                ELSE /\ \A i \in 0..(DivDt(s[1], cal.dt) - 1) :
                            g[i + 1] = f[i + 1]
                     /\ \A i \in SmoothedRange(n, s) :
                            g[i + 1] = RollingAverage(f, i, s)
                     /\ \A i \in (last + 1)..(n - 1) :
                            g[i + 1] = RollingAverage(f, last, s)

\* What the tail holds instead: the head and the smoothed range are as
\* C23 says, and every index beyond the smoothed range holds the
\* interpolated curve's own value at the first index after the range
TailHoldsUnsmoothedValue ==
    \A s \in SmoothInputs :
        SmoothedWith(s) =>
            LET f == Val(cal.f0t_interp)
                g == Val(cal.f0t)
                n == Len(f)
                last == n - DivDt(s[2], cal.dt) - 1
            IN  IF TooShort(n, s) THEN g = f
                ELSE /\ Len(g) = n
                     /\ \A i \in 0..(DivDt(s[1], cal.dt) - 1) :
                            g[i + 1] = f[i + 1]
                     /\ \A i \in SmoothedRange(n, s) :
                            g[i + 1] = RollingAverage(f, i, s)
                     /\ \A i \in (last + 1)..(n - 1) :
                            g[i + 1] = f[last + 2]

\* A calibration whose smoothed range and tail are both non-empty
SmoothedWithTail ==
    \E s \in SmoothInputs :
        /\ SmoothedWith(s)
        /\ ~TooShort(Len(Val(cal.f0t_interp)), s)
        /\ DivDt(s[2], cal.dt) >= 2

\* A calibration of a curve too short for start plus window
SmoothedTooShort ==
    \E s \in SmoothInputs :
        SmoothedWith(s) /\ TooShort(Len(Val(cal.f0t_interp)), s)


-----------------------------------------------------------------------------
(* Residual extraction *)

\* C24: the residual matrix generate_scenarios returns has the shape of the
\* returned short-rate paths, is 0 at step 0, and at step i + 1 of every
\* returned path, kept from the first simulation or generated as a
\* replacement, equals the shock that produced r[i + 1] from r[i].
C24_ResidualsInvertRecurrence ==
    HwReturned =>
        LET rt == hwOut.value.rt
            residuals == hwOut.value.residuals
        IN  /\ Len(residuals) = Len(rt)
            /\ \A k \in 1..Len(rt) :
                  /\ Len(residuals[k]) = Len(rt[k])
                  /\ residuals[k][1] = 0
                  /\ \A i \in 1..(Len(rt[k]) - 1) :
                        /\ rt[k][i + 1] = Drift(hw, rt[k][i], i - 1)
                                          + SqrtLdt(hw) * hwOut.path_shocks[k][i]
                        /\ residuals[k][i + 1] = hwOut.path_shocks[k][i]

\* Returned paths of both kinds, with shocks that are not zero: some path
\* was filtered out and replaced
C24_Witness ==
    /\ HwReturned /\ hwOut.retried /\ hwOut.n_bad > 0
    /\ Len(hwOut.value.rt) = hw.n_scenarios
    /\ hwOut.n_bad < hw.n_scenarios
    /\ hw.n_steps >= 3
    /\ \A k \in 1..Len(hwOut.value.rt) :
          \E i \in 1..(hw.n_steps - 1) : hwOut.path_shocks[k][i] # 0


-----------------------------------------------------------------------------
(* The retry ceiling of the explosive-path filter *)

\* Paths the first simulation of the last generate_scenarios call produced
Simulated == IF hwOut.use_antithetic THEN (hw.n_scenarios \div 2) * 2
             ELSE hw.n_scenarios

\* Paths of the first simulation that passed the filter
Survivors == Simulated - hwOut.n_bad

\* pct_removed < max_retries, with pct_removed = n_bad / len(Rt) * 100
BelowCeiling == hwOut.n_bad * 100 < hwOut.max_retries * Simulated

\* C25: the replacement loop is entered exactly when fewer than n_scenarios
\* paths survive the filter and the percentage of discarded paths is
\* strictly below max_retries; otherwise only the surviving paths are
\* returned; in every case at most n_scenarios paths are returned.
C25_RetryCeiling ==
    HwReturned =>
        /\ hwOut.retried <=> (Survivors < hw.n_scenarios /\ BelowCeiling)
        /\ ~hwOut.retried =>
              /\ Len(hwOut.value.rt) = Min(Survivors, hw.n_scenarios)
              /\ \A k \in 1..Len(hwOut.value.Rt) :
                    ~Explosive([Rt |-> hwOut.value.Rt[k]], LimHighCont,
                               LimLowCont)
        /\ Len(hwOut.value.rt) <= hw.n_scenarios
        /\ Len(hwOut.value.Rt) = Len(hwOut.value.rt)

\* Paths were discarded, their percentage equals the ceiling, and the call
\* returned the survivors alone
C25_Witness ==
    /\ HwReturned /\ hwOut.n_bad > 0 /\ ~hwOut.retried
    /\ hwOut.n_bad * 100 = hwOut.max_retries * Simulated
    /\ Survivors > 0
    /\ Len(hwOut.value.rt) = Survivors

\* Paths were discarded below the ceiling and replaced
C25_WitnessReplaced ==
    /\ HwReturned /\ hwOut.n_bad > 0 /\ hwOut.retried
    /\ Len(hwOut.value.rt) = hw.n_scenarios


-----------------------------------------------------------------------------
(* The return models with their shock factors supplied *)

\* Correlation coefficients the equity constructor accepts
ValidCorrelations == {rho \in AssetCorrelations : -FP <= rho /\ rho <= FP}

\* C26: generate_returns of the equity model with equity_shocks given draws
\* nothing, leaves the random stream where it was, and returns what it
\* returns for any other correlation coefficient and any other rate_shocks;
\* generate_returns of the real-estate model with both shock factors given
\* draws nothing and leaves the stream where it was.
C26_SuppliedShocksDrawNothing ==
    /\ (AssetReturned("equity") /\ ~IsNone(assetOut.equity_shocks)) =>
          /\ assetOut.drawn = 0
          /\ rng = assetOut.before
          /\ \A rho \in ValidCorrelations :
                \A rate_shocks \in
                       {None, Some(SuppliedShocks(assetOut.short_rates, -1)),
                        Some(SuppliedShocks(assetOut.short_rates, 2))} :
                    EquityGenerate(
                        [asset.self EXCEPT !.correlation_with_rates = rho],
                        assetOut.short_rates, assetOut.equity_shocks,
                        rate_shocks, assetOut.before).value = assetOut.value
    /\ (/\ AssetReturned("real_estate")
        /\ ~IsNone(assetOut.re_price_shocks)
        /\ ~IsNone(assetOut.re_rental_shocks)) =>
          /\ assetOut.drawn = 0
          /\ rng = assetOut.before

\* An equity model with a correlation other than 0 was given equity_shocks
\* and rate_shocks, after an earlier call had drawn from the stream
C26_Witness ==
    /\ AssetReturned("equity")
    /\ asset.self.correlation_with_rates # 0
    /\ ~IsNone(assetOut.equity_shocks) /\ ~IsNone(assetOut.rate_shocks)
    /\ assetOut.before.pos > 0
    /\ Len(assetOut.short_rates[1]) >= 2

\* A real-estate model was given both shock factors, after an earlier call
\* had drawn from the stream
C26_WitnessRealEstate ==
    /\ AssetReturned("real_estate")
    /\ ~IsNone(assetOut.re_price_shocks) /\ ~IsNone(assetOut.re_rental_shocks)
    /\ assetOut.before.pos > 0

\* Without equity_shocks the equity model draws one variate per entry and
\* leaves the stream that much further
EquityDrawsWhenNotSupplied ==
    (AssetReturned("equity") /\ IsNone(assetOut.equity_shocks)) =>
        /\ assetOut.drawn = Len(assetOut.short_rates)
                            * Len(assetOut.short_rates[1])
        /\ rng = Advance(assetOut.before, assetOut.drawn)

\* Short-rate paths of the shape of short_rates with other values
OtherShortRates(short_rates, shift) ==
    [k \in DOMAIN short_rates |->
        [t \in DOMAIN short_rates[k] |->
            shift + 3 * short_rates[k][t] + 70 * k * t]]

\* C29: generate_returns of the real-estate model returns the same
\* auxiliary-rate, price, rental and total arrays for the same forward
\* curve and shock factors and any short-rate paths of the same shape.
C29_ShortRatesGiveShapeOnly ==
    AssetReturned("real_estate") =>
        \A shift \in {-500, 0, 400} :
            RealEstateGenerate(asset.self,
                               OtherShortRates(assetOut.short_rates, shift),
                               assetOut.f0t, assetOut.re_price_shocks,
                               assetOut.re_rental_shocks,
                               assetOut.before).value = assetOut.value

\* A real-estate model returned arrays of several scenarios and steps that
\* are not constant, from supplied shock factors
C29_Witness ==
    /\ AssetReturned("real_estate")
    /\ ~IsNone(assetOut.re_price_shocks) /\ ~IsNone(assetOut.re_rental_shocks)
    /\ Len(assetOut.short_rates) >= 2 /\ Len(assetOut.short_rates[1]) >= 3
    /\ Len(assetOut.f0t) >= 3
    /\ assetOut.value.auxiliary_rates[1] # assetOut.value.auxiliary_rates[2]
    /\ assetOut.value.price_returns[1] # assetOut.value.price_returns[2]
    /\ OtherShortRates(assetOut.short_rates, 0) # assetOut.short_rates


-----------------------------------------------------------------------------
(* reorder_assets *)

\* new_order is a permutation of 0 .. n_assets - 1
IsPermutation(g, new_order) ==
    /\ Len(new_order) = g.n_assets
    /\ {new_order[i] : i \in 1..Len(new_order)} = 0..(g.n_assets - 1)

\* The correlation generator g stores for the assets named x and y
StoredCorrelation(g, x, y) ==
    g.correlation_matrix[AssetIndex(g.asset_names, x)]
                        [AssetIndex(g.asset_names, y)]

Names(g) == {g.asset_names[i] : i \in 1..Len(g.asset_names)}

\* C27: reorder_assets with a permutation puts name new_order[i] at place i
\* and keeps the correlation stored for any two asset names, and its factor
\* is the one computed from the reordered matrix; with a list of another
\* length or one that is not a permutation it raises ValueError and leaves
\* names, matrix and factor as they were.
C27_ReorderKeepsCorrelations ==
    crgOut.op = "reorder_assets" =>
        IF IsPermutation(crgOut.before, crgOut.new_order)
        THEN /\ crgOut.raised = "none"
             /\ \A i \in 1..crg.n_assets :
                    crg.asset_names[i]
                        = crgOut.before.asset_names[crgOut.new_order[i] + 1]
             /\ Names(crg) = Names(crgOut.before)
             /\ \A x \in Names(crg), y \in Names(crg) :
                    StoredCorrelation(crg, x, y)
                        = StoredCorrelation(crgOut.before, x, y)
             /\ crg.cholesky_matrix
                    = ComputeCholeskyTraced(crg.correlation_matrix,
                                            crg.nonfinite,
                                            crgOut.lapack).cholesky_matrix
        ELSE /\ crgOut.raised = "ValueError"
             /\ crg = crgOut.before

\* The default generator reordered by a permutation that changes matrix,
\* names and factor
C27_Witness ==
    /\ crgOut.op = "reorder_assets" /\ crgOut.raised = "none"
    /\ crg.n_assets = 5
    /\ crg.correlation_matrix # crgOut.before.correlation_matrix
    /\ crg.asset_names # crgOut.before.asset_names
    /\ crg.cholesky_matrix # crgOut.before.cholesky_matrix

\* A list of the right length that is not a permutation, and one of the
\* wrong length, were refused
C27_WitnessRefused ==
    /\ crgOut.op = "reorder_assets" /\ crgOut.raised = "ValueError"
    /\ Len(crgOut.new_order) = crg.n_assets
C27_WitnessWrongLength ==
    /\ crgOut.op = "reorder_assets" /\ crgOut.raised = "ValueError"
    /\ Len(crgOut.new_order) # crg.n_assets


-----------------------------------------------------------------------------
(* The configured step count across generate calls *)

\* Steps of every row of a cube
CubeSteps(shocks) ==
    {Len(shocks[a][k]) : a \in DOMAIN shocks, k \in DOMAIN shocks[1]}

\* C28: a generator constructed with n_steps = 2 keeps that step count
\* through every generate call, with residuals of any step count or
\* without, and a generate() without residuals returns a cube of 2 steps.
C28_GenerateKeepsNSteps ==
    crg # Unbuilt =>
        /\ crg.n_steps = 2
        /\ (/\ crgOut.op = "generate" /\ crgOut.raised = "none"
            /\ IsNone(crgOut.rate_residuals)) => CubeSteps(crgOut.shocks) = {2}

\* What generate does instead: after generate(rate_residuals) the
\* configured step count is that of the residuals, and generate() returns
\* a cube of the step count configured at the time
GenerateAdoptsResidualSteps ==
    (crg # Unbuilt /\ crgOut.op = "generate") =>
        /\ ~IsNone(crgOut.rate_residuals) =>
              crg.n_steps = Len(Val(crgOut.rate_residuals)[1])
        /\ (crgOut.raised = "none" /\ IsNone(crgOut.rate_residuals)) =>
              CubeSteps(crgOut.shocks) = {crg.n_steps}

\* generate() returned a cube of one step from a generator constructed
\* with two
GenerateAfterShorterResiduals ==
    /\ crg # Unbuilt /\ crgOut.op = "generate" /\ crgOut.raised = "none"
    /\ IsNone(crgOut.rate_residuals)
    /\ CubeSteps(crgOut.shocks) = {1}


-----------------------------------------------------------------------------
(* The stream between the short-rate simulation and the shock generator *)

\* The stages "short_rate" and "correlated_shocks" of run g
RateStage(g) == calls[g].stages[2]
ShockStage(g) == calls[g].stages[3]

\* Variates a stage took from the stream
StageDraws(stage) == stage.after.pos - stage.before.pos

\* The p-th variate (from 0) of the one np.random.normal call that fills
\* the independent shocks, of shape (n_assets - 1, n_sim // 2, n_steps)
FlatIndependent(independent, p) ==
    LET rows == Len(independent[1]) \div 2
        n_steps == Len(independent[1][1])
    IN  independent[p \div (rows * n_steps) + 1]
                   [(p % (rows * n_steps)) \div n_steps + 1]
                   [(p % n_steps) + 1]

\* The shock generator's draws are, one by one, the numbers the short-rate
\* simulator took from the stream
Replays(g) ==
    \A p \in 0..(Min(StageDraws(RateStage(g)), StageDraws(ShockStage(g))) - 1) :
        FlatIndependent(ShockStage(g).output.independent, p)
            = NormalAt(RateStage(g).before.seed, RateStage(g).before.pos + p)

\* The shock generator's draws are the numbers that follow the simulator's
Follows(g) ==
    /\ ShockStage(g).before = RateStage(g).after
    /\ \A p \in 0..(StageDraws(ShockStage(g)) - 1) :
           FlatIndependent(ShockStage(g).output.independent, p)
               = NormalAt(RateStage(g).after.seed, RateStage(g).after.pos + p)

\* Run g got as far as its correlated shocks
Shocked(g) == Called(g) /\ Len(calls[g].stages) >= 3

C30_WitnessUnseeded ==
    \E g \in Slots :
        /\ Shocked(g) /\ ~Seeded_(g)
        /\ StageDraws(RateStage(g)) >= 2
        /\ StageDraws(ShockStage(g)) >= 2

\* A seeded run whose simulator drew from another stream than its seed's
C30_WitnessStale ==
    \E g \in Slots :
        /\ Shocked(g) /\ Seeded_(g)
        /\ RateStage(g).before.seed # Val(gens[g].self.random_seed)
        /\ StageDraws(RateStage(g)) >= 2

=============================================================================
